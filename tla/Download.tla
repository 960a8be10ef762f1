------------------------------ MODULE Download ------------------------------
(* Resolving a model name to a file on disk (download/mod.rs): choosing the *)
(* parts of a model in a repository listing and fetching each with a        *)
(* resuming curl whose length is checked afterwards.  curl, the server and  *)
(* a kill of the process are the environment.                               *)
(*                                                                          *)
(* A file is [base, part, count]: part p of a split model, or count 0 for a *)
(* single file.  A local copy is its length, 0 when it does not exist.      *)
EXTENDS Integers, Sequences, FiniteSets, SequencesExt

CONSTANTS Repo,    \* the repository's .gguf files, in listing order
          Size     \* length of every remote object

VARIABLES local,   \* length of each copy in the cache directory
          pc,      \* "idle", "parts" or "curl"
          todo,    \* parts still to handle, in order
          sized,   \* parts whose remote size is known in this attempt
          answer   \* what resolve returned: a set of files, or an error

vars == <<local, pc, todo, sized, answer>>

Files == ToSet(Repo)
MaxLength == 2 * Size   \* bound: how far a copy may grow past its end
Lengths == 0..MaxLength

-----------------------------------------------------------------------------
(* Mutant of GroupOf: a file names its own group, so one part is a model.   *)
GroupOfPart(files, f) == SelectSeq(files, LAMBDA g : g = f)

(* The files that make one model, in listing order. *)
GroupOf(files, f) == SelectSeq(files, LAMBDA g : g.base = f.base)

Bases(files) == {f.base : f \in ToSet(files)}

(* What a request may name: nothing, a file of the listing, or a quant      *)
(* suffix, given by the bases it matches.                                   *)
Requests(files) ==
    [kind : {"any"}, bases : {Bases(files)}]
    \cup [kind : {"file"}, file : ToSet(files)]
    \cup [kind : {"quant"}, bases : SUBSET Bases(files)]

(* match_model: <<>> stands for its error (none, or several candidates).    *)
match_model(files, req) ==
    IF req.kind = "file" THEN GroupOf(files, req.file)
    ELSE IF Cardinality(req.bases) # 1 THEN <<>>
    ELSE SelectSeq(files, LAMBDA g : g.base \in req.bases)

-----------------------------------------------------------------------------
Init ==
    /\ local = [f \in Files |-> 0] /\ pc = "idle" /\ todo = <<>>
    /\ sized = {} /\ answer = {}

(* download_hf: list the repository, select the model.  The API or a HEAD   *)
(* request gives the size of some parts.                                    *)
DownloadHf(req, known) ==
    /\ pc = "idle"
    /\ todo' = match_model(Repo, req)
    /\ sized' = known \cap ToSet(todo')
    /\ answer' = {} /\ UNCHANGED local
    /\ pc' = IF todo' = <<>> THEN "idle" ELSE "parts"

(* Mutant of Complete: any copy on disk counts as cached. *)
CompleteIfThere(f) == local[f] > 0

(* A part is skipped only when its length is the remote one. *)
Complete(f) == local[f] > 0 /\ f \in sized /\ local[f] = Size

NextPart ==
    /\ pc = "parts" /\ todo # <<>>
    /\ IF Complete(Head(todo)) THEN pc' = "parts" /\ todo' = Tail(todo) /\ answer' = answer \cup {Head(todo)}
                               ELSE pc' = "curl" /\ UNCHANGED <<todo, answer>>
    /\ UNCHANGED <<local, sized>>

Return ==
    /\ pc = "parts" /\ todo = <<>> /\ pc' = "idle"
    /\ UNCHANGED <<local, todo, sized, answer>>

Fail == pc' = "idle" /\ todo' = <<>> /\ answer' = {} /\ UNCHANGED sized

(* What one curl -f -C - does to a copy: [len, ok].  A server that honours  *)
(* the range sends the rest; of a copy at or past the end nothing is left,  *)
(* and curl fails on the 416 or takes it for done.  One that ignores the    *)
(* range has the whole object appended.  A transfer may be cut.             *)
curl(len) ==
    LET whole == {IF len < Size THEN Size ELSE len, len + Size}
    IN  [len : whole \cap Lengths, ok : {TRUE}]
        \cup [len : (len..(len + Size - 1)) \cap Lengths, ok : {FALSE}]

(* Mutant of check_downloaded_size: a longer file passes. *)
check_downloaded_sizeAtLeast(f, len) == f \in sized => len >= Size

check_downloaded_size(f, len) == f \in sized => len = Size

HttpDownload(r) ==
    /\ pc = "curl" /\ r \in curl(local[Head(todo)])
    /\ IF ~r.ok THEN local' = [local EXCEPT ![Head(todo)] = r.len] /\ Fail
       ELSE IF check_downloaded_size(Head(todo), r.len)
         THEN /\ local' = [local EXCEPT ![Head(todo)] = r.len]
              /\ pc' = "parts" /\ todo' = Tail(todo) /\ answer' = answer \cup {Head(todo)}
              /\ UNCHANGED sized
         ELSE local' = [local EXCEPT ![Head(todo)] = 0] /\ Fail

(* The process is killed while curl writes. *)
Killed(r) ==
    /\ pc = "curl" /\ r \in curl(local[Head(todo)])
    /\ local' = [local EXCEPT ![Head(todo)] = r.len] /\ Fail

Next ==
    \/ \E req \in Requests(Repo), known \in SUBSET Files : DownloadHf(req, known)
    \/ NextPart
    \/ Return
    \/ \E f \in Files : \E r \in curl(local[f]) : HttpDownload(r)
    \/ \E f \in Files : \E r \in curl(local[f]) : Killed(r)

-----------------------------------------------------------------------------
TypeOK ==
    /\ local \in [Files -> Lengths] /\ pc \in {"idle", "parts", "curl"}
    /\ ToSet(todo) \subseteq Files /\ sized \subseteq Files /\ answer \subseteq Files

(* What download_hf returns is a whole model: every part of the group, and  *)
(* each part whose size was known has exactly that length: a copy cut by a  *)
(* kill is resumed, one a server appended to is removed, whatever attempts  *)
(* with unknown sizes came before (http_download, check_downloaded_size).   *)
AnswerIsWhole ==
    pc = "idle" /\ answer # {} =>
        /\ \E f \in answer : answer = {g \in Files : g.base = f.base}
        /\ \A f \in answer \cap sized : local[f] = Size
=============================================================================
