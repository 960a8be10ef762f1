---------------------------- MODULE EngineRestart ----------------------------
(* The engine with its slot snapshot (--slots-file, C5 S2): every completed  *)
(* request rewrites the file in place, the worker may die at any moment, and *)
(* the next worker builds a fresh engine and loads what the file holds.      *)
EXTENDS BatchEngine, KvSession

CONSTANTS MaxCrashes    \* bound: crashes in one run
ASSUME RestartAssumption == MaxCrashes \in Nat

VARIABLES disk,     \* the words of the slots file
          up,       \* the worker serves
          crashes   \* crashes so far
rvars == <<vars, disk, up, crashes>>

Expect == [backend |-> 0, n_ctx |-> NCtx, n_embd |-> 1, format |-> "f32"]
SlotHeader == [version |-> VERSION, format |-> "f32", backend |-> 0, n_layer |-> 1,
               n_ctx |-> NCtx, n_embd |-> 1, row_elems |-> 1]

(* slots_to_json: one row of the table a slot.                               *)
slots_to_json(ss) == [i \in Slots |-> [seq |-> i, start |-> ss[i].start, cap |-> ss[i].cap, cached |-> ss[i].cached]]

(* finish is reached in slot order; the last one's save is what stays, taken *)
(* before the later slots advance.                                           *)
Finished == {i \in Slots : Running(i) /\ slots'[i].run = Idle /\ slots'[i].cached # <<>>}
AtSave ==
    LET last == Max(Finished)
    IN  [i \in Slots |-> IF i <= last THEN slots'[i]
                         ELSE IF i \in Range(BatchRows) THEN Forwarded(slots[i]) ELSE slots[i]]
(* Mutant of save_slots: the regions are read before the step's forward.     *)
save_slotsEarly == kv_save(kv, SlotHeader, slots_to_json(AtSave))
save_slots == kv_save(kv', SlotHeader, slots_to_json(AtSave))

(* What a save that was cut short leaves: File::create truncated the old     *)
(* file, and some words of the new one follow.                               *)
TornFrom(f) == {<<>>, SubSeq(f, 1, Len(f) \div 2), Front(f)}

(* One step of the engine: without a finish the file is left alone, else it  *)
(* is rewritten; the write may fail (the engine only warns) or the worker    *)
(* may die in it.                                                            *)
Serve ==
    /\ up /\ Next
    /\ IF Step /\ Finished # {}
       THEN \E f \in {save_slots} :
              \/ disk' \in {f, disk} \cup TornFrom(f) /\ UNCHANGED <<up, crashes>>
              \/ /\ disk' \in TornFrom(f) /\ crashes < MaxCrashes /\ up' = FALSE /\ crashes' = crashes + 1
       ELSE UNCHANGED <<disk, up, crashes>>

Crash ==
    /\ up /\ crashes < MaxCrashes /\ up' = FALSE /\ crashes' = crashes + 1
    /\ UNCHANGED <<vars, disk>>

(* load_slots: the arena is the file's once the container is accepted; then  *)
(* the slot table is checked row by row, and the first row that disagrees    *)
(* leaves it and the later ones as BatchEngine::new made them.               *)
Fits(row, store) == row.seq \in Live(store) /\ Len(row.cached) <= store.seqs[row.seq].written
                        /\ Len(row.cached) <= store.seqs[row.seq].cap
Resumed(slot, row, store) ==
    [slot EXCEPT !.start = store.seqs[row.seq].start, !.cap = store.seqs[row.seq].cap, !.cached = row.cached]
load_slots(new, f) ==
    LET store == kv_load(f)
        table == HostOf(f)
    IN  IF ~Loadable(f, Expect) THEN new
        ELSE [kv |-> store,
              slots |-> [i \in Slots |-> IF \A j \in 1..i : Fits(table[j], store) THEN Resumed(new.slots[i], table[i], store)
                                         ELSE new.slots[i]]]

(* The next worker: BatchEngine::new, then load_slots.                       *)
New ==
    LET cap == NCtx \div Cardinality(Slots)
    IN  [kv |-> [EmptyStore EXCEPT !.seqs = [i \in Slots |-> SeqSlot((i - 1) * cap, cap)]],
         slots |-> [i \in Slots |-> [start |-> (i - 1) * cap, cap |-> cap, cached |-> <<>>, run |-> Idle]]]
Restart ==
    /\ ~up /\ up' = TRUE
    /\ \E st \in {load_slots(New, disk)} : kv' = st.kv /\ slots' = st.slots
    /\ todo' = <<>> /\ pre' = NoPrefill /\ fresh' = FALSE
    /\ UNCHANGED <<tally, disk, crashes>>

RInit == Init /\ disk = <<>> /\ up = TRUE /\ crashes = 0
RNext == Serve \/ Crash \/ Restart
RSpec == RInit /\ [][RNext]_rvars
-----------------------------------------------------------------------------
(* The file on disk is whole or refused: a save that was cut short, at any   *)
(* word, is never applied, and a whole one brings back the arena and the     *)
(* table it was given ("Validate before apply", "Truncation is caught").     *)
FileWholeOrRefused ==
    /\ \A n \in 0..(Len(disk) - 1) : ~Loadable(SubSeq(disk, 1, n), Expect)
    /\ Loadable(disk, Expect) => kv_save(kv_load(disk), SlotHeader, HostOf(disk)) = disk

(* After a restart a slot that says it holds a conversation has a run that   *)
(* holds it, through crashes in the middle of a save: a request that matches *)
(* the slot's tokens reads the rows of those tokens.                         *)
ResumedRowsHoldMirror ==
    up => \A i \in Slots : i # pre.slot =>
        \A n \in 1 .. Len(slots[i].cached) :
            i \in Live(kv) /\ RowAt(kv, i, n - 1) = SubSeq(slots[i].cached, 1, n)

(* "Refused, loudly and without touching the arena": after a restart a slot  *)
(* is where the arena has its run, or the arena has none of its cells.       *)
SlotsFollowRuns ==
    up => \A i \in Slots : i \in Live(kv) /\ slots[i].cap > 0 =>
        slots[i].start = kv.seqs[i].start /\ slots[i].cap = kv.seqs[i].cap
=============================================================================
