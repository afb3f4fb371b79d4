---------------------------- MODULE GdeltDownload ----------------------------
(***************************************************************************)
(* GDELTDownloader: fetching one file of the GDELT archive into the raw    *)
(* zone, with resumption, retries and the MD5 of the master file list.     *)
(*                                                                         *)
(* A download is one execution of _download_one for that file: by the API, *)
(* the command line or the pipeline, or twice by one batch when the master *)
(* list names the file twice.  All write the same path and none knows of   *)
(* the others.  The file is a sequence of blocks <<version, index>>; the   *)
(* archive may publish another version of it.  The decision after the HEAD *)
(* request, from stat() to unlink(), is one step.                          *)
(***************************************************************************)
EXTENDS Naturals, Sequences

CONSTANTS
  Download,    \* executions of _download_one
  Size,        \* Size[v]: blocks of version v of the file
  None,
  MaxRetries,  \* config.max_retries
  MaxRuns,     \* bound: downloads started
  MaxFaults    \* bound: failed or cut requests and kills

Published == DOMAIN Size

ASSUME DownloadAssumption ==
  /\ Size \in [Published -> Nat \ {0}] /\ Published \subseteq Nat \ {0} /\ 1 \in Published
  /\ None \notin Seq(Nat \X Nat)
  /\ MaxRetries \in Nat /\ MaxRuns \in Nat /\ MaxFaults \in Nat

VARIABLES
  remote,    \* the version the archive serves
  file,      \* the blocks at the path, None if there is no file
  pc,        \* next step of a download
  expected,  \* the version whose MD5 the master list gave it
  offset,    \* bytes (blocks) it will ask the server to skip
  source,    \* the version a response carries
  mode,      \* how it opened the file: "ab" or "wb"
  attached,  \* whether what it has open is the file at the path
  next,      \* the next block of the response
  retries,
  result,    \* status of its last run
  alone,     \* history: no other download was active since it began
  cuts,      \* history: failed or cut requests of its run
  causes,    \* history: what happened that can spoil the file
  runs, faults

localVars == <<offset, source, mode, attached, next>>
histVars  == <<alone, cuts, causes>>
vars == <<remote, file, pc, expected, localVars, retries, result, histVars, runs, faults>>

Block == Nat \X Nat
Hole == <<0, 0>>
Blocks(v, n) == [i \in 1..n |-> <<v, i>>]
Whole(v) == Blocks(v, Size[v])

Init ==
  /\ remote = 1 /\ file = None
  /\ pc = [d \in Download |-> "idle"]
  /\ expected = [d \in Download |-> 1]
  /\ offset = [d \in Download |-> 0]
  /\ source = [d \in Download |-> 1]
  /\ mode = [d \in Download |-> "wb"]
  /\ attached = [d \in Download |-> FALSE]
  /\ next = [d \in Download |-> 1]
  /\ retries = [d \in Download |-> 0]
  /\ result = [d \in Download |-> "none"]
  /\ alone = [d \in Download |-> TRUE]
  /\ cuts = [d \in Download |-> 0]
  /\ causes = {} /\ runs = 0 /\ faults = 0

Active == {d \in Download : pc[d] # "idle"}

\* The archive replaces the file; later downloads are given its MD5.
Publish(v) ==
  /\ v = remote + 1
  /\ remote' = v
  /\ causes' = causes \cup {"republished"}
  /\ UNCHANGED <<file, pc, expected, localVars, retries, result, alone, cuts, runs, faults>>

Start(d) ==
  /\ pc[d] = "idle" /\ runs < MaxRuns
  /\ runs' = runs + 1
  /\ pc' = [pc EXCEPT ![d] = "head"]
  /\ expected' = [expected EXCEPT ![d] = remote]
  /\ retries' = [retries EXCEPT ![d] = 0]
  /\ cuts' = [cuts EXCEPT ![d] = 0]
  /\ result' = [result EXCEPT ![d] = "none"]
  /\ alone' = [c \in Download |-> IF c = d THEN Active = {} ELSE FALSE]
  /\ causes' = IF Active = {} THEN causes ELSE causes \cup {"shared"}
  /\ UNCHANGED <<remote, file, localVars, faults>>

Goto(d, label) == pc' = [pc EXCEPT ![d] = label]

\* The local variables mean nothing between attempts.
Forget(d) ==
  /\ offset' = [offset EXCEPT ![d] = 0]
  /\ source' = [source EXCEPT ![d] = 1]
  /\ mode' = [mode EXCEPT ![d] = "wb"]
  /\ next' = [next EXCEPT ![d] = 1]

Unlinked(d) == file' = None /\ attached' = [c \in Download |-> FALSE]
Kept(d) == UNCHANGED file /\ attached' = [attached EXCEPT ![d] = FALSE]

\* An attempt failed.  Faulty variant: one attempt less.
FewerAttempts(n) == n < MaxRetries
AnotherAttempt(n) == n <= MaxRetries

Retry(d) ==
  /\ retries' = [retries EXCEPT ![d] = @ + 1]
  /\ IF AnotherAttempt(retries[d] + 1)
     THEN Goto(d, "head") /\ UNCHANGED result
     ELSE Goto(d, "idle") /\ result' = [result EXCEPT ![d] = "failed"]
  /\ Forget(d)

Cut(d) ==
  /\ faults < MaxFaults /\ faults' = faults + 1
  /\ cuts' = [cuts EXCEPT ![d] = @ + 1]
  /\ Retry(d)

-----------------------------------------------------------------------------
(* _download_with_resume                                                   *)

Local == IF file = None THEN 0 ELSE Len(file)

\* HEAD answers with a Content-Length or without, and offers ranges or not.
\* A file of full size is not requested again.
Probe(d) ==
  /\ pc[d] = "head"
  /\ \E sized, ranges \in BOOLEAN :
       LET size == IF sized THEN Size[remote] ELSE 0
       IN \/ /\ file # None /\ size > 0 /\ Local >= size
             /\ Goto(d, "verify")
             /\ Kept(d) /\ UNCHANGED <<offset, mode>>
          \/ /\ Local > 0 /\ ranges /\ Local < size
             /\ offset' = [offset EXCEPT ![d] = Local]
             /\ mode' = [mode EXCEPT ![d] = "ab"]
             /\ Goto(d, "get") /\ Kept(d)
          \/ /\ Local > 0 /\ ~(ranges /\ Local < size) /\ ~(size > 0 /\ Local >= size)
             /\ Goto(d, "get") /\ Unlinked(d) /\ UNCHANGED <<offset, mode>>
          \/ /\ Local = 0
             /\ Goto(d, "get") /\ Kept(d) /\ UNCHANGED <<offset, mode>>
  /\ UNCHANGED <<remote, expected, source, next, retries, result, histVars, runs, faults>>

ProbeFails(d) ==
  /\ pc[d] = "head" /\ Cut(d) /\ Kept(d)
  /\ UNCHANGED <<remote, expected, alone, causes, runs>>

\* The response to GET: the file is opened and receives blocks from first on.
\* Faulty variant: resuming overwrites the file.
Overwriting(d) == "wb"
Opening(d) == mode[d]

Respond(d, first, how) ==
  /\ source' = [source EXCEPT ![d] = remote]
  /\ next' = [next EXCEPT ![d] = first]
  /\ mode' = [mode EXCEPT ![d] = how]
  /\ file' = IF how = "wb" \/ file = None THEN <<>> ELSE file
  /\ Goto(d, "body")
  /\ UNCHANGED <<expected, offset, retries, result, alone, cuts, runs, faults>>

\* The server skips offset blocks, or ignores the range; the code does not
\* look at the status of the response.
Get(d) ==
  /\ pc[d] = "get" /\ offset[d] < Size[remote]
  /\ attached' = [attached EXCEPT ![d] = TRUE]
  /\ \/ Respond(d, offset[d] + 1, Opening(d)) /\ UNCHANGED causes
     \/ /\ offset[d] > 0 /\ Respond(d, 1, Opening(d))
        /\ causes' = causes \cup {"ignored"}
  /\ UNCHANGED remote

\* 416: the file is removed, and requested from the start.
NotSatisfiable(d) ==
  /\ pc[d] = "get" /\ offset[d] >= Size[remote]
  /\ offset' = [offset EXCEPT ![d] = 0]
  /\ mode' = [mode EXCEPT ![d] = "wb"]
  /\ Unlinked(d)
  /\ UNCHANGED <<remote, pc, expected, source, next, retries, result, histVars, runs, faults>>

GetFails(d) ==
  /\ pc[d] = "get" /\ Cut(d) /\ Kept(d)
  /\ UNCHANGED <<remote, expected, alone, causes, runs>>

\* The file after block b is written at position i, and appended.
WrittenAt(f, i, b) ==
  [k \in 1..(IF i > Len(f) THEN i ELSE Len(f)) |->
     IF k = i THEN b ELSE IF k <= Len(f) THEN f[k] ELSE Hole]
Written(d) ==
  LET b == <<source[d], next[d]>>
  IN IF mode[d] = "ab" THEN Append(file, b) ELSE WrittenAt(file, next[d], b)

Write(d) ==
  /\ pc[d] = "body" /\ next[d] <= Size[source[d]]
  /\ file' = IF attached[d] THEN Written(d) ELSE file
  /\ next' = [next EXCEPT ![d] = @ + 1]
  /\ UNCHANGED <<remote, pc, expected, offset, source, mode, attached, retries, result, histVars, runs, faults>>

Close(d) ==
  /\ pc[d] = "body" /\ next[d] > Size[source[d]]
  /\ Goto(d, "verify") /\ Forget(d) /\ Kept(d)
  /\ UNCHANGED <<remote, expected, retries, result, histVars, runs, faults>>

BodyCut(d) ==
  /\ pc[d] = "body" /\ Cut(d) /\ Kept(d)
  /\ UNCHANGED <<remote, expected, alone, causes, runs>>

-----------------------------------------------------------------------------
(* _download_one                                                           *)

\* The MD5 of version v.  Faulty variant: the size is compared.
SameSize(v) == Local = Size[v]
Intact(v) == file = Whole(v)

Verify(d) ==
  /\ pc[d] = "verify"
  /\ IF Intact(expected[d])
     THEN Goto(d, "recheck") /\ UNCHANGED <<localVars, retries, result>>
     ELSE Retry(d) /\ UNCHANGED attached
  /\ UNCHANGED <<remote, file, expected, histVars, runs, faults>>

\* The MD5 again; a file that vanished is not missed.
Recheck(d) ==
  /\ pc[d] = "recheck"
  /\ result' = [result EXCEPT ![d] =
       IF file = None \/ Intact(expected[d]) THEN "completed" ELSE "failed"]
  /\ Goto(d, "idle")
  /\ UNCHANGED <<remote, file, expected, localVars, retries, histVars, runs, faults>>

\* The process is killed; what was written stays.
Die(d) ==
  /\ pc[d] # "idle" /\ faults < MaxFaults
  /\ faults' = faults + 1
  /\ Goto(d, "idle") /\ Forget(d) /\ Kept(d)
  /\ UNCHANGED <<remote, expected, retries, result, histVars, runs>>

Next ==
  \/ \E v \in Published : Publish(v)
  \/ \E d \in Download :
       \/ Start(d) \/ Probe(d) \/ ProbeFails(d) \/ Get(d) \/ NotSatisfiable(d) \/ GetFails(d)
       \/ Write(d) \/ Close(d) \/ BodyCut(d) \/ Verify(d) \/ Recheck(d) \/ Die(d)

Spec == Init /\ [][Next]_vars
-----------------------------------------------------------------------------
\* Only a download with a response has the file open; it appends only to a
\* file it resumes, and between attempts it remembers no offset.
HandlesOK ==
  \A d \in Download :
    /\ attached[d] => pc[d] = "body" /\ file # None
    /\ mode[d] = "ab" => offset[d] > 0
    /\ pc[d] \in {"idle", "head", "verify", "recheck"} => offset[d] = 0

\* The types of the variables and what goes with a download's place.
TypeOK ==
  /\ remote \in Published
  /\ file = None \/ file \in Seq(Block)
  /\ pc \in [Download -> {"idle", "head", "get", "body", "verify", "recheck"}]
  /\ expected \in [Download -> Published] /\ source \in [Download -> Published]
  /\ offset \in [Download -> Nat] /\ next \in [Download -> Nat]
  /\ mode \in [Download -> {"ab", "wb"}] /\ attached \in [Download -> BOOLEAN]
  /\ HandlesOK
  /\ result \in [Download -> {"none", "completed", "failed"}]
  /\ alone \in [Download -> BOOLEAN]
  /\ cuts \in [Download -> Nat] /\ retries \in [Download -> Nat]
  /\ causes \subseteq {"shared", "ignored", "republished"}

\* Cut connections, kills, resumption and servers without ranges or sizes
\* never spoil the file: unless two downloads of it overlapped, a server
\* ignored a range or the archive replaced the file, what is there is a
\* beginning of the published file.
FileIsPrefix ==
  causes = {} /\ file # None => \E n \in 0..Size[1] : file = Blocks(1, n)

\* A completed download leaves the file the master list described, whatever
\* earlier downloads left at the path, if no other ran since it began.
CompletedIsIntact ==
  \A d \in Download :
    result[d] = "completed" /\ alone[d] => file = Whole(expected[d])

\* Resuming is never the reason for failing: a download of an unspoilt file
\* fails only when each of its attempts was cut.
RetriesSuffice ==
  \A d \in Download :
    result[d] = "failed" /\ causes = {} => cuts[d] > MaxRetries
=============================================================================
