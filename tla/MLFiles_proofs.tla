--------------------------- MODULE MLFiles_proofs ---------------------------
(***************************************************************************)
(* The two parts of the ML platform that keep files.  What cut             *)
(* connections, kills and overlapping downloads can do to a file, for any  *)
(* number of downloads, sizes, versions, retries and faults; and what a    *)
(* cached column is worth, for any engines, definitions and frames.        *)
(***************************************************************************)
EXTENDS GdeltDownload, FeaturePipeline, SequenceTheorems, TLAPS

\* The file stays a sequence of blocks.
LEMMA WrittenType ==
  ASSUME NEW d \in Download, TypeOK, file \in Seq(Block)
  PROVE  Written(d) \in Seq(Block)
<1> DEFINE b == <<source[d], next[d]>>
<1>1. b \in Block /\ Hole \in Block
  BY DownloadAssumption DEF TypeOK, Block, Hole
<1>2. Append(file, b) \in Seq(Block)
  BY <1>1
<1>3. WrittenAt(file, next[d], b) \in Seq(Block)
  <2>1. next[d] \in Nat /\ Len(file) \in Nat
    BY DEF TypeOK
  <2>2. PICK n \in Nat : n = IF next[d] > Len(file) THEN next[d] ELSE Len(file)
    BY <2>1
  <2> DEFINE w(k) == IF k = next[d] THEN b ELSE IF k <= Len(file) THEN file[k] ELSE Hole
  <2>3. \A k \in 1..n : w(k) \in Block
    BY <1>1, <2>1
  <2>4. [k \in 1..n |-> w(k)] \in [1..n -> Block]
    BY <2>3
  <2>5. [1..n -> Block] \subseteq Seq(Block)
    BY <2>2, SeqDef
  <2>. QED  BY <2>2, <2>4, <2>5 DEF WrittenAt
<1>. QED  BY <1>2, <1>3 DEF Written

\* The types of what an attempt's end and a response change.
LEMMA ForgetTypes ==
  ASSUME NEW d \in Download, TypeOK, Forget(d)
  PROVE  /\ offset' \in [Download -> Nat] /\ next' \in [Download -> Nat]
         /\ source' \in [Download -> Published] /\ mode' \in [Download -> {"ab", "wb"}]
BY DownloadAssumption DEF TypeOK, Forget

LEMMA RetryTypes ==
  ASSUME NEW d \in Download, TypeOK, Retry(d)
  PROVE  /\ offset' \in [Download -> Nat] /\ next' \in [Download -> Nat]
         /\ source' \in [Download -> Published] /\ mode' \in [Download -> {"ab", "wb"}]
         /\ pc' \in [Download -> {"idle", "head", "get", "body", "verify", "recheck"}]
         /\ retries' \in [Download -> Nat]
         /\ result' \in [Download -> {"none", "completed", "failed"}]
<1>1. Forget(d) /\ retries' = [retries EXCEPT ![d] = @ + 1]
  BY DEF Retry
<1>2. retries' \in [Download -> Nat]
  BY <1>1 DEF TypeOK
<1>3. CASE AnotherAttempt(retries[d] + 1)
  <2>1. pc' = [pc EXCEPT ![d] = "head"] /\ result' = result
    BY <1>3 DEF Retry, Goto
  <2>. QED  BY <1>1, <1>2, <2>1, ForgetTypes DEF TypeOK
<1>4. CASE ~AnotherAttempt(retries[d] + 1)
  <2>1. pc' = [pc EXCEPT ![d] = "idle"] /\ result' = [result EXCEPT ![d] = "failed"]
    BY <1>4 DEF Retry, Goto
  <2>. QED  BY <1>1, <1>2, <2>1, ForgetTypes DEF TypeOK
<1>. QED  BY <1>3, <1>4

LEMMA CutTypes ==
  ASSUME NEW d \in Download, TypeOK, Cut(d)
  PROVE  cuts' \in [Download -> Nat] /\ Retry(d)
BY DEF TypeOK, Cut

LEMMA HandleTypes ==
  ASSUME NEW d \in Download, TypeOK, Kept(d) \/ Unlinked(d)
  PROVE  /\ attached' \in [Download -> BOOLEAN]
         /\ file' = None \/ file' \in Seq(Block)
BY DEF TypeOK, Kept, Unlinked

LEMMA RespondTypes ==
  ASSUME NEW d \in Download, TypeOK, NEW first \in Nat, NEW how \in {"ab", "wb"},
         Respond(d, first, how)
  PROVE  /\ next' \in [Download -> Nat]
         /\ source' \in [Download -> Published] /\ mode' \in [Download -> {"ab", "wb"}]
         /\ pc' \in [Download -> {"idle", "head", "get", "body", "verify", "recheck"}]
         /\ file' \in Seq(Block)
         /\ pc'[d] = "body" /\ mode'[d] = how
         /\ \A e \in Download : e # d => pc'[e] = pc[e] /\ mode'[e] = mode[e]
         /\ UNCHANGED <<expected, offset, retries, result, alone, cuts, runs, faults>>
BY DownloadAssumption DEF TypeOK, Respond, Goto

\* The types of GdeltDownload hold in every behaviour.
THEOREM DownloadTypeCorrect == Spec => []TypeOK
<1>1. Init => TypeOK
  BY DownloadAssumption DEF Init, TypeOK, HandlesOK
<1>2. TypeOK /\ [Next]_vars => TypeOK'
  <2> SUFFICES ASSUME TypeOK, [Next]_vars
               PROVE  TypeOK'
    OBVIOUS
  <2> USE DownloadAssumption DEF Goto, Forget, Kept, Unlinked, Retry, Cut, localVars, histVars
  <2>1. ASSUME NEW v \in Published, Publish(v)
        PROVE  TypeOK'
    BY <2>1 DEF Publish, TypeOK, HandlesOK
  <2>2. ASSUME NEW d \in Download, Start(d)
        PROVE  TypeOK'
    BY <2>2 DEF Start, TypeOK, HandlesOK
  <2>3. ASSUME NEW d \in Download, Probe(d)
        PROVE  TypeOK'
    <3>0. Local \in Nat
      BY DEF TypeOK, Local
    <3>1. HandlesOK'
      <4> SUFFICES ASSUME NEW e \in Download
                   PROVE  (/\ attached[e] => pc[e] = "body" /\ file # None
                           /\ mode[e] = "ab" => offset[e] > 0
                           /\ pc[e] \in {"idle", "head", "verify", "recheck"} => offset[e] = 0)'
        BY DEF HandlesOK
      <4>1. CASE e = d
        BY <2>3, <4>1, <3>0 DEF Probe, TypeOK, HandlesOK
      <4>2. CASE e # d
        BY <2>3, <4>2, <3>0 DEF Probe, TypeOK, HandlesOK
      <4>. QED  BY <4>1, <4>2
    <3>2. attached' \in [Download -> BOOLEAN] /\ (file' = None \/ file' \in Seq(Block))
      BY <2>3 DEF Probe, TypeOK
    <3>3. offset' \in [Download -> Nat] /\ mode' \in [Download -> {"ab", "wb"}]
      <4>1. \/ UNCHANGED <<offset, mode>>
            \/ /\ offset' = [offset EXCEPT ![d] = Local]
               /\ mode' = [mode EXCEPT ![d] = "ab"]
        BY <2>3 DEF Probe
      <4>2. /\ offset \in [Download -> Nat] /\ mode \in [Download -> {"ab", "wb"}]
            /\ [offset EXCEPT ![d] = Local] \in [Download -> Nat]
            /\ [mode EXCEPT ![d] = "ab"] \in [Download -> {"ab", "wb"}]
        BY <3>0 DEF TypeOK
      <4>. QED  BY <4>1, <4>2
    <3>4. pc' \in [Download -> {"idle", "head", "get", "body", "verify", "recheck"}]
      BY <2>3 DEF Probe, TypeOK
    <3>5. UNCHANGED <<remote, expected, source, next, retries, result, histVars, runs, faults>>
      BY <2>3 DEF Probe
    <3>. QED  BY <3>1, <3>2, <3>3, <3>4, <3>5 DEF TypeOK
  <2>4. ASSUME NEW d \in Download, ProbeFails(d) \/ BodyCut(d) \/ Die(d)
        PROVE  TypeOK'
    <3>1. HandlesOK'
      <4> SUFFICES ASSUME NEW e \in Download
                   PROVE  (/\ attached[e] => pc[e] = "body" /\ file # None
                           /\ mode[e] = "ab" => offset[e] > 0
                           /\ pc[e] \in {"idle", "head", "verify", "recheck"} => offset[e] = 0)'
        BY DEF HandlesOK
      <4>1. CASE e = d
        BY <2>4, <4>1 DEF ProbeFails, BodyCut, Die, TypeOK, HandlesOK
      <4>2. CASE e # d
        BY <2>4, <4>2 DEF ProbeFails, BodyCut, Die, TypeOK, HandlesOK
      <4>. QED  BY <4>1, <4>2
    <3>. HIDE DEF Goto, Forget, Kept, Unlinked, Retry, Cut
    <3>2. CASE ProbeFails(d) \/ BodyCut(d)
      BY <3>1, <3>2, RetryTypes, CutTypes, HandleTypes DEF ProbeFails, BodyCut, TypeOK
    <3>3. CASE Die(d)
      BY <3>1, <3>3, ForgetTypes, HandleTypes DEF Die, Goto, TypeOK
    <3>. QED  BY <2>4, <3>2, <3>3
  <2>5. ASSUME NEW d \in Download, Get(d)
        PROVE  TypeOK'
    <3>0. /\ offset[d] + 1 \in Nat /\ 1 \in Nat /\ mode[d] \in {"ab", "wb"}
          /\ mode[d] = "ab" => offset[d] > 0
      BY DEF TypeOK, HandlesOK
    <3>1. PICK first \in Nat, how \in {"ab", "wb"} :
            Respond(d, first, how) /\ (how = "ab" => offset[d] > 0)
      <4>1. Respond(d, offset[d] + 1, mode[d]) \/ Respond(d, 1, mode[d])
        BY <2>5 DEF Get, Opening
      <4>. QED  BY <3>0, <4>1
    <3>2. /\ attached' \in [Download -> BOOLEAN]
          /\ \A e \in Download : e # d => attached'[e] \in {attached[e], FALSE}
          /\ remote' = remote /\ causes' \subseteq {"shared", "ignored", "republished"}
      BY <2>5 DEF Get, TypeOK
    <3>3. /\ next' \in [Download -> Nat]
          /\ source' \in [Download -> Published] /\ mode' \in [Download -> {"ab", "wb"}]
          /\ pc' \in [Download -> {"idle", "head", "get", "body", "verify", "recheck"}]
          /\ file' \in Seq(Block)
          /\ pc'[d] = "body" /\ mode'[d] = how
          /\ \A e \in Download : e # d => pc'[e] = pc[e] /\ mode'[e] = mode[e]
          /\ UNCHANGED <<expected, offset, retries, result, alone, cuts, runs, faults>>
      BY <3>1, RespondTypes
    <3>4. file' # None
      BY <3>3 DEF Block
    <3>5. HandlesOK'
      <4> SUFFICES ASSUME NEW e \in Download
                   PROVE  (/\ attached[e] => pc[e] = "body" /\ file # None
                           /\ mode[e] = "ab" => offset[e] > 0
                           /\ pc[e] \in {"idle", "head", "verify", "recheck"} => offset[e] = 0)'
        BY DEF HandlesOK
      <4>0. offset'[e] = offset[e]
        BY <3>3
      <4>1. CASE e = d
        BY <3>1, <3>3, <3>4, <4>0, <4>1
      <4>2. CASE e # d
        <5>1. pc'[e] = pc[e] /\ mode'[e] = mode[e] /\ (attached'[e] => attached[e])
          BY <3>2, <3>3, <4>2 DEF TypeOK
        <5>. QED  BY <3>4, <4>0, <5>1 DEF TypeOK, HandlesOK
      <4>. QED  BY <4>1, <4>2
    <3>. QED  BY <3>2, <3>3, <3>5 DEF TypeOK
  <2>6. ASSUME NEW d \in Download, GetFails(d)
        PROVE  TypeOK'
    <3>1. HandlesOK'
      <4> SUFFICES ASSUME NEW e \in Download
                   PROVE  (/\ attached[e] => pc[e] = "body" /\ file # None
                           /\ mode[e] = "ab" => offset[e] > 0
                           /\ pc[e] \in {"idle", "head", "verify", "recheck"} => offset[e] = 0)'
        BY DEF HandlesOK
      <4>1. CASE e = d
        BY <2>6, <4>1 DEF GetFails, TypeOK, HandlesOK
      <4>2. CASE e # d
        BY <2>6, <4>2 DEF GetFails, TypeOK, HandlesOK
      <4>. QED  BY <4>1, <4>2
    <3>. HIDE DEF Goto, Forget, Kept, Unlinked, Retry, Cut
    <3>. QED  BY <2>6, <3>1, RetryTypes, CutTypes, HandleTypes DEF GetFails, TypeOK
  <2>7. ASSUME NEW d \in Download, Write(d)
        PROVE  TypeOK'
    <3>1. file' = None \/ file' \in Seq(Block)
      BY <2>7, WrittenType DEF Write, TypeOK, HandlesOK
    <3>2. attached[d] => file' # None
      BY <2>7, WrittenType DEF Write, TypeOK, HandlesOK, Block
    <3>. QED  BY <2>7, <3>1, <3>2 DEF Write, TypeOK, HandlesOK
  <2>8. ASSUME NEW d \in Download, Close(d)
        PROVE  TypeOK'
    BY <2>8 DEF Close, TypeOK, HandlesOK
  <2>9. ASSUME NEW d \in Download, Verify(d)
         PROVE  TypeOK'
    <3>1. HandlesOK'
      <4> SUFFICES ASSUME NEW e \in Download
                   PROVE  (/\ attached[e] => pc[e] = "body" /\ file # None
                           /\ mode[e] = "ab" => offset[e] > 0
                           /\ pc[e] \in {"idle", "head", "verify", "recheck"} => offset[e] = 0)'
        BY DEF HandlesOK
      <4>1. CASE e = d
        BY <2>9, <4>1 DEF Verify, TypeOK, HandlesOK
      <4>2. CASE e # d
        BY <2>9, <4>2 DEF Verify, TypeOK, HandlesOK
      <4>. QED  BY <4>1, <4>2
    <3>. HIDE DEF Forget, Retry
    <3>2. CASE Retry(d)
      BY <2>9, <3>1, <3>2, RetryTypes DEF Verify, TypeOK
    <3>3. CASE ~Retry(d)
      BY <2>9, <3>1, <3>3 DEF Verify, TypeOK
    <3>. QED  BY <3>2, <3>3
  <2>10. ASSUME NEW d \in Download, Recheck(d)
         PROVE  TypeOK'
    BY <2>10 DEF Recheck, TypeOK, HandlesOK
  <2>11. ASSUME NEW d \in Download, NotSatisfiable(d)
         PROVE  TypeOK'
    BY <2>11 DEF NotSatisfiable, TypeOK, HandlesOK
  <2>12. CASE UNCHANGED vars
    BY <2>12 DEF vars, TypeOK, HandlesOK
  <2>. QED
    BY <2>1, <2>2, <2>3, <2>4, <2>5, <2>6, <2>7, <2>8, <2>9, <2>10, <2>11, <2>12 DEF Next
<1>. QED  BY <1>1, <1>2, PTL DEF Spec

-----------------------------------------------------------------------------
\* CompletedIsIntact needs that a download that is alone is the only active
\* one, and that its second look at the MD5 finds what the first did.
AloneInv ==
  \A d \in Download :
    alone[d] =>
      /\ \A c \in Download : c # d => pc[c] = "idle"
      /\ pc[d] = "recheck" \/ result[d] = "completed" => file = Whole(expected[d])
      /\ pc[d] # "idle" => result[d] = "none"

\* Every step keeps it.
LEMMA AloneInductive == TypeOK /\ AloneInv /\ [Next]_vars => AloneInv'
<1> SUFFICES ASSUME TypeOK, AloneInv, [Next]_vars, NEW d \in Download, alone'[d]
             PROVE  /\ \A c \in Download : c # d => pc'[c] = "idle"
                    /\ pc'[d] = "recheck" \/ result'[d] = "completed" => file' = Whole(expected'[d])
                    /\ pc'[d] # "idle" => result'[d] = "none"
  BY DEF AloneInv, Whole, Blocks
<1> USE DEF Goto, Forget, Kept, Unlinked, Retry, Cut, localVars, histVars, TypeOK
<1>1. ASSUME NEW c \in Download, Start(c)
      PROVE  /\ \A e \in Download : e # d => pc'[e] = "idle"
             /\ pc'[d] = "recheck" \/ result'[d] = "completed" => file' = Whole(expected'[d])
             /\ pc'[d] # "idle" => result'[d] = "none"
  <2>1. c = d /\ Active = {}
    BY <1>1 DEF Start
  <2>. QED  BY <1>1, <2>1 DEF Start, Active
<1>2. CASE ~ \E c \in Download : Start(c)
  <2>1. /\ alone[d]
        /\ \A c \in Download : c # d => pc[c] = "idle"
        /\ pc[d] = "recheck" \/ result[d] = "completed" => file = Whole(expected[d])
        /\ pc[d] # "idle" => result[d] = "none"
    <3>1. alone' = alone
      BY <1>2 DEF Next, vars, Publish, Probe, ProbeFails, Get, NotSatisfiable, GetFails, Respond,
         Write, Close, BodyCut, Verify, Recheck, Die
    <3>. QED  BY <3>1 DEF AloneInv
  <2>2. ASSUME NEW v \in Published, Publish(v)
        PROVE  UNCHANGED <<pc, result, file, expected>>
    BY <2>2 DEF Publish
  <2>3. CASE UNCHANGED vars \/ \E v \in Published : Publish(v)
    BY <2>1, <2>2, <2>3 DEF vars
  <2>4. ASSUME NEW c \in Download,
               \/ Probe(c) \/ ProbeFails(c) \/ Get(c) \/ NotSatisfiable(c) \/ GetFails(c)
               \/ Write(c) \/ Close(c) \/ BodyCut(c) \/ Verify(c) \/ Recheck(c) \/ Die(c)
        PROVE  /\ \A e \in Download : e # d => pc'[e] = "idle"
               /\ pc'[d] = "recheck" \/ result'[d] = "completed" => file' = Whole(expected'[d])
               /\ pc'[d] # "idle" => result'[d] = "none"
    <3>1. pc[c] # "idle"
      BY <2>4 DEF Probe, ProbeFails, Get, NotSatisfiable, GetFails, Write, Close, BodyCut,
         Verify, Recheck, Die
    <3>2. c = d /\ result[d] = "none"
      BY <2>1, <3>1
    <3>3. \A e \in Download : e # d => pc'[e] = "idle"
      BY <2>1, <2>4, <3>2 DEF Probe, ProbeFails, Get, NotSatisfiable, GetFails, Respond, Write,
         Close, BodyCut, Verify, Recheck, Die
    <3>4. CASE Probe(d) \/ ProbeFails(d) \/ Get(d) \/ NotSatisfiable(d)
      BY <3>2, <3>3, <3>4 DEF Probe, ProbeFails, Get, NotSatisfiable, Respond
    <3>5. CASE GetFails(d) \/ Write(d) \/ Close(d) \/ BodyCut(d) \/ Die(d)
      BY <3>2, <3>3, <3>5 DEF GetFails, Write, Close, BodyCut, Die
    <3>6. CASE Verify(d)
      BY <3>2, <3>3, <3>6 DEF Verify, Intact
    <3>7. CASE Recheck(d)
      <4>1. pc[d] = "recheck"
        BY <3>7 DEF Recheck
      <4>2. file = Whole(expected[d])
        BY <2>1, <4>1
      <4>. QED  BY <3>2, <3>3, <3>7, <4>2 DEF Recheck
    <3>. QED  BY <2>4, <3>2, <3>4, <3>5, <3>6, <3>7
  <2>. QED  BY <1>2, <2>3, <2>4 DEF Next
<1>. QED  BY <1>1, <1>2

\* A download that no other overlapped or followed and that says it is
\* completed has left the file the master list described.
THEOREM CompletedFiles == Spec => []CompletedIsIntact
<1>1. Init => AloneInv
  BY DEF Init, AloneInv
<1>2. TypeOK /\ AloneInv /\ [Next]_vars => AloneInv'
  BY AloneInductive
<1>3. AloneInv => CompletedIsIntact
  BY DEF AloneInv, CompletedIsIntact
<1>. QED  BY <1>1, <1>2, <1>3, DownloadTypeCorrect, PTL DEF Spec
-----------------------------------------------------------------------------
\* While nothing that can spoil the file has happened, at most one download is
\* active and its place fixes what the file holds.
HasBlocks == file # None /\ \E n \in 0..Size[1] : file = Blocks(1, n)

PlaceOK(d) ==
  /\ pc[d] # "idle" => expected[d] = 1 /\ retries[d] = cuts[d]
  /\ result[d] = "failed" => cuts[d] > MaxRetries
  /\ pc[d] = "get" =>
       \/ offset[d] = 0 /\ mode[d] = "wb"
       \/ mode[d] = "ab" /\ file # None /\ offset[d] = Len(file) /\ offset[d] < Size[1]
  /\ pc[d] = "body" =>
       source[d] = 1 /\ attached[d] /\ HasBlocks /\ next[d] = Len(file) + 1
  /\ pc[d] \in {"verify", "recheck"} => file = Whole(1)

CleanInv ==
  causes = {} =>
    /\ remote = 1
    /\ file = None \/ HasBlocks
    /\ \A c, d \in Download : pc[c] # "idle" /\ pc[d] # "idle" => c = d
    /\ \A d \in Download : PlaceOK(d)

\* The blocks of a version, one more at a time.
LEMMA BlocksGrow ==
  ASSUME NEW n \in Nat
  PROVE  /\ Blocks(1, n) \in Seq(Block) /\ Len(Blocks(1, n)) = n
         /\ Append(Blocks(1, n), <<1, n + 1>>) = Blocks(1, n + 1)
         /\ WrittenAt(Blocks(1, n), n + 1, <<1, n + 1>>) = Blocks(1, n + 1)
<1>1. Blocks(1, n) \in Seq(Block)
  <2>1. \A i \in 1..n : <<1, i>> \in Block
    BY DEF Block
  <2>2. [i \in 1..n |-> <<1, i>>] \in [1..n -> Block]
    BY <2>1
  <2>3. [1..n -> Block] \subseteq Seq(Block)
    BY SeqDef
  <2>. QED  BY <2>2, <2>3 DEF Blocks
<1>2. Len(Blocks(1, n)) = n
  BY DEF Blocks
<1>3. Append(Blocks(1, n), <<1, n + 1>>) = Blocks(1, n + 1)
  BY <1>1, <1>2 DEF Blocks
<1>4. WrittenAt(Blocks(1, n), n + 1, <<1, n + 1>>) = Blocks(1, n + 1)
  BY <1>2 DEF WrittenAt, Blocks
<1>. QED  BY <1>1, <1>2, <1>3, <1>4

\* Every step keeps it.
LEMMA CleanInductive == TypeOK /\ CleanInv /\ [Next]_vars => CleanInv'
<1> SUFFICES ASSUME TypeOK, CleanInv, [Next]_vars, causes' = {}
             PROVE  /\ remote' = 1
                    /\ file' = None \/ HasBlocks'
                    /\ \A c, d \in Download : pc'[c] # "idle" /\ pc'[d] # "idle" => c = d
                    /\ \A d \in Download : PlaceOK(d)'
  BY DEF CleanInv
<1>1. causes = {}
  BY DEF Next, vars, histVars, Publish, Start, Probe, ProbeFails, Get, NotSatisfiable, GetFails,
     Write, Close, BodyCut, Verify, Recheck, Die
<1>2. /\ remote = 1
      /\ file = None \/ HasBlocks
      /\ \A c, d \in Download : pc[c] # "idle" /\ pc[d] # "idle" => c = d
      /\ \A d \in Download : PlaceOK(d)
  BY <1>1 DEF CleanInv
<1>3. ASSUME NEW v \in Published, Publish(v)
      PROVE  FALSE
  BY <1>3 DEF Publish
<1>4. ASSUME NEW d \in Download, Start(d)
      PROVE  CleanInv'
  <2>1. \A c \in Download : pc[c] = "idle"
    BY <1>4 DEF Start, Active
  <2>2. /\ pc' = [pc EXCEPT ![d] = "head"] /\ UNCHANGED <<remote, file>>
        /\ expected' = [expected EXCEPT ![d] = 1]
        /\ retries' = [retries EXCEPT ![d] = 0] /\ cuts' = [cuts EXCEPT ![d] = 0]
        /\ result' = [result EXCEPT ![d] = "none"]
    BY <1>2, <1>4 DEF Start
  <2>3. HasBlocks' <=> HasBlocks
    BY <2>2 DEF HasBlocks, Blocks
  <2>4. ASSUME NEW c \in Download
        PROVE  PlaceOK(c)'
    BY <1>2, <2>1, <2>2 DEF PlaceOK, TypeOK
  <2>. QED  BY <1>2, <2>1, <2>2, <2>3, <2>4 DEF CleanInv, TypeOK
<1>5. CASE UNCHANGED vars
  <2>1. ASSUME NEW d \in Download
        PROVE  PlaceOK(d)'
    BY <1>2, <1>5 DEF PlaceOK, vars, localVars, histVars, HasBlocks, Whole, Blocks
  <2>. QED  BY <1>2, <1>5, <2>1 DEF vars, HasBlocks, Blocks
<1>6. ASSUME NEW d \in Download,
             \/ Probe(d) \/ ProbeFails(d) \/ Get(d) \/ NotSatisfiable(d) \/ GetFails(d)
             \/ Write(d) \/ Close(d) \/ BodyCut(d) \/ Verify(d) \/ Recheck(d) \/ Die(d)
      PROVE  CleanInv'
  <2> USE DEF Goto
  <2>1. pc[d] # "idle" /\ expected[d] = 1 /\ retries[d] = cuts[d]
    <3>1. pc[d] # "idle"
      BY <1>6 DEF Probe, ProbeFails, Get, NotSatisfiable, GetFails, Write, Close, BodyCut,
         Verify, Recheck, Die
    <3>. QED  BY <1>2, <3>1 DEF PlaceOK
  <2>2. \A e \in Download : e # d => pc[e] = "idle"
    BY <1>2, <2>1
  <2>3. /\ remote' = 1 /\ expected' = expected
        /\ \A e \in Download : e # d => /\ pc'[e] = pc[e] /\ result'[e] = result[e]
                                        /\ cuts'[e] = cuts[e]
    <3>1. CASE \/ Probe(d) \/ Get(d) \/ NotSatisfiable(d) \/ Write(d) \/ Close(d) \/ Recheck(d)
               \/ Die(d)
      BY <1>2, <3>1 DEF Probe, Get, NotSatisfiable, Respond, Write, Close, Recheck, Die, histVars,
         TypeOK
    <3>2. CASE ProbeFails(d) \/ GetFails(d) \/ BodyCut(d)
      BY <1>2, <3>2 DEF ProbeFails, GetFails, BodyCut, Cut, Retry, TypeOK
    <3>3. CASE Verify(d)
      BY <1>2, <3>3 DEF Verify, Retry, histVars, TypeOK
    <3>. QED  BY <1>6, <3>1, <3>2, <3>3
  <2>4. ASSUME NEW e \in Download, e # d
        PROVE  PlaceOK(e)'
    <3>1. pc'[e] = "idle" /\ (result'[e] = "failed" => cuts'[e] > MaxRetries)
      BY <1>2, <2>2, <2>3, <2>4 DEF PlaceOK
    <3>. QED  BY <3>1 DEF PlaceOK
  <2>5. SUFFICES (file' = None \/ HasBlocks') /\ PlaceOK(d)'
    BY <2>2, <2>3, <2>4 DEF CleanInv
  <2>6. ASSUME HasBlocks
        PROVE  \E n \in 0..Size[1] : file = Blocks(1, n) /\ Len(file) = n /\ file \in Seq(Block)
    <3>1. PICK n \in 0..Size[1] : file = Blocks(1, n)
      BY <2>6 DEF HasBlocks
    <3>2. n \in Nat
      BY DownloadAssumption
    <3>3. Blocks(1, n) \in Seq(Block) /\ Len(Blocks(1, n)) = n
      BY <3>2, BlocksGrow
    <3>. QED  BY <3>1, <3>3
  <2>7. Size[1] \in Nat \ {0} /\ retries[d] \in Nat /\ cuts[d] \in Nat /\ MaxRetries \in Nat
    BY DownloadAssumption DEF TypeOK
  <2>8. ASSUME Cut(d), Kept(d) \/ Unlinked(d)
        PROVE  (file' = None \/ HasBlocks') /\ PlaceOK(d)'
    <3>1. file' = None \/ HasBlocks'
      BY <1>2, <2>8 DEF Kept, Unlinked, HasBlocks, Blocks
    <3>2. /\ cuts'[d] = retries'[d]
          /\ \/ pc'[d] = "head" /\ result'[d] = result[d]
             \/ pc'[d] = "idle" /\ cuts'[d] > MaxRetries
      BY <2>1, <2>7, <2>8 DEF Cut, Retry, AnotherAttempt, TypeOK
    <3>3. result[d] = "failed" => cuts[d] > MaxRetries
      BY <1>2 DEF PlaceOK
    <3>4. cuts'[d] > cuts[d]
      BY <2>7, <2>8 DEF Cut, TypeOK
    <3>5. CASE pc'[d] = "head" /\ result'[d] = result[d]
      <4>1. result'[d] = "failed" => cuts'[d] > MaxRetries
        <5>1. cuts'[d] \in Nat
          BY <2>7, <2>8 DEF Cut, TypeOK
        <5>. QED  BY <2>7, <3>3, <3>4, <3>5, <5>1
      <4>. QED  BY <2>1, <2>3, <3>1, <3>2, <3>5, <4>1 DEF PlaceOK
    <3>6. CASE pc'[d] = "idle" /\ cuts'[d] > MaxRetries
      BY <3>1, <3>6 DEF PlaceOK
    <3>. QED  BY <3>2, <3>5, <3>6
  <2>9. CASE ProbeFails(d) \/ GetFails(d) \/ BodyCut(d)
    BY <2>8, <2>9 DEF ProbeFails, GetFails, BodyCut
  <2>10. CASE Probe(d)
    <3>1. PICK sized, ranges \in BOOLEAN :
            LET size == IF sized THEN Size[remote] ELSE 0
            IN \/ /\ file # None /\ size > 0 /\ Local >= size
                  /\ Goto(d, "verify")
                  /\ Kept(d) /\ UNCHANGED <<offset, mode>>
               \/ /\ Local > 0 /\ ranges /\ Local < size
                  /\ offset' = [offset EXCEPT ![d] = Local]
                  /\ mode' = [mode EXCEPT ![d] = "ab"]
                  /\ Goto(d, "get") /\ Kept(d)
               \/ /\ Local > 0 /\ ~(ranges /\ Local < size) /\ ~(size > 0 /\ Local >= size)
                  /\ Goto(d, "get") /\ Unlinked(d) /\ UNCHANGED <<offset, mode>>
               \/ /\ Local = 0
                  /\ Goto(d, "get") /\ Kept(d) /\ UNCHANGED <<offset, mode>>
      BY <2>10 DEF Probe
    <3>2. PICK size \in {0, Size[1]} :
            \/ /\ file # None /\ size > 0 /\ Local >= size
               /\ Goto(d, "verify")
               /\ Kept(d) /\ UNCHANGED <<offset, mode>>
            \/ /\ Local > 0 /\ Local < size
               /\ offset' = [offset EXCEPT ![d] = Local]
               /\ mode' = [mode EXCEPT ![d] = "ab"]
               /\ Goto(d, "get") /\ Kept(d)
            \/ Goto(d, "get") /\ (Unlinked(d) \/ Kept(d)) /\ UNCHANGED <<offset, mode>>
      BY <1>2, <3>1
    <3>3. /\ pc[d] = "head" /\ offset[d] = 0 /\ mode[d] = "wb"
          /\ UNCHANGED <<retries, cuts, result>>
      BY <2>10 DEF Probe, histVars, TypeOK, HandlesOK
    <3>4. result'[d] = "failed" => cuts'[d] > MaxRetries
      BY <1>2, <3>3 DEF PlaceOK
    <3>5. file' = None \/ HasBlocks'
      BY <1>2, <3>2 DEF Kept, Unlinked, HasBlocks, Blocks
    <3>6. CASE file # None /\ size > 0 /\ Local >= size /\ Goto(d, "verify") /\ Kept(d)
      <4>1. PICK n \in 0..Size[1] : file = Blocks(1, n) /\ Len(file) = n
        BY <1>2, <2>6, <3>6
      <4>2. n = Size[1]
        BY <2>7, <3>6, <4>1 DEF Local
      <4>3. file' = Whole(1)
        BY <3>6, <4>1, <4>2 DEF Kept, Whole
      <4>4. pc'[d] = "verify"
        BY <3>6 DEF TypeOK
      <4>5. Whole(1)' = Whole(1)
        BY DEF Whole, Blocks
      <4>. QED  BY <2>1, <2>3, <3>3, <3>4, <3>5, <4>3, <4>4, <4>5 DEF PlaceOK
    <3>7. CASE /\ Local > 0 /\ Local < size
               /\ offset' = [offset EXCEPT ![d] = Local]
               /\ mode' = [mode EXCEPT ![d] = "ab"]
               /\ Goto(d, "get") /\ Kept(d)
      <4>1. pc'[d] = "get" /\ offset'[d] = Local /\ mode'[d] = "ab" /\ file' = file
        BY <3>7 DEF Kept, TypeOK
      <4>2. file # None /\ Local = Len(file) /\ Local < Size[1]
        BY <2>7, <3>7 DEF Local
      <4>. QED  BY <2>1, <2>3, <3>3, <3>4, <3>5, <4>1, <4>2 DEF PlaceOK
    <3>8. CASE Goto(d, "get") /\ UNCHANGED <<offset, mode>>
      <4>1. pc'[d] = "get" /\ offset'[d] = 0 /\ mode'[d] = "wb"
        BY <3>3, <3>8 DEF TypeOK
      <4>. QED  BY <2>1, <2>3, <3>3, <3>4, <3>5, <4>1 DEF PlaceOK
    <3>. QED  BY <3>2, <3>6, <3>7, <3>8
  <2>11. CASE Get(d) \/ NotSatisfiable(d)
    <3>1. pc[d] = "get"
      BY <2>11 DEF Get, NotSatisfiable
    <3>2. \/ offset[d] = 0 /\ mode[d] = "wb"
          \/ mode[d] = "ab" /\ file # None /\ offset[d] = Len(file) /\ offset[d] < Size[1]
      BY <1>2, <3>1 DEF PlaceOK
    <3>3. offset[d] < Size[1]
      BY <2>7, <3>2
    <3>4. Get(d)
      BY <1>2, <2>7, <2>11, <3>3 DEF NotSatisfiable, TypeOK
    <3>5. Respond(d, offset[d] + 1, mode[d]) /\ attached'[d] = TRUE
      BY <1>1, <3>4 DEF Get, Opening, TypeOK
    <3>6. /\ source'[d] = 1 /\ next'[d] = offset[d] + 1 /\ pc'[d] = "body"
          /\ file' = IF mode[d] = "wb" \/ file = None THEN <<>> ELSE file
          /\ UNCHANGED <<retries, cuts, result>>
      BY <1>2, <3>5 DEF Respond, TypeOK
    <3>7. HasBlocks' /\ next'[d] = Len(file') + 1
      <4>1. CASE offset[d] = 0 /\ mode[d] = "wb"
        <5>1. file' = <<>> /\ next'[d] = 1
          BY <3>6, <4>1
        <5>2. Blocks(1, 0) = <<>>
          BY DEF Blocks
        <5>3. <<>> # None
          <6>1. Blocks(1, 0) \in Seq(Block)
            BY BlocksGrow
          <6>. QED  BY <5>2, <6>1, DownloadAssumption DEF Block
        <5>. QED  BY <2>7, <5>1, <5>2, <5>3 DEF HasBlocks, Blocks
      <4>2. CASE mode[d] = "ab" /\ file # None /\ offset[d] = Len(file)
        <5>1. file' = file /\ next'[d] = Len(file) + 1
          BY <3>6, <4>2
        <5>. QED  BY <1>2, <4>2, <5>1 DEF HasBlocks, Blocks
      <4>. QED  BY <3>2, <4>1, <4>2
    <3>8. result[d] = "failed" => cuts[d] > MaxRetries
      BY <1>2 DEF PlaceOK
    <3>. QED  BY <2>1, <2>3, <3>5, <3>6, <3>7, <3>8 DEF PlaceOK
  <2>12. CASE Write(d)
    <3>1. /\ pc[d] = "body" /\ next[d] <= Size[source[d]]
          /\ file' = (IF attached[d] THEN Written(d) ELSE file)
          /\ next'[d] = next[d] + 1
          /\ UNCHANGED <<pc, source, attached, retries, result, cuts>>
      BY <2>12 DEF Write, histVars, TypeOK
    <3>2. source[d] = 1 /\ attached[d] /\ HasBlocks /\ next[d] = Len(file) + 1
      BY <1>2, <3>1 DEF PlaceOK
    <3>3. PICK n \in 0..Size[1] : file = Blocks(1, n) /\ Len(file) = n
      BY <2>6, <3>2
    <3>4. n + 1 \in 0..Size[1] /\ n \in Nat
      BY <2>7, <3>1, <3>2, <3>3
    <3>5. file' = Blocks(1, n + 1)
      BY <3>1, <3>2, <3>3, <3>4, BlocksGrow DEF Written
    <3>6. file' # None /\ Len(file') = n + 1
      <4>1. n + 1 \in Nat
        BY <3>4
      <4>2. Blocks(1, n + 1) \in Seq(Block) /\ Len(Blocks(1, n + 1)) = n + 1
        BY <4>1, BlocksGrow
      <4>. QED  BY <3>5, <4>2, DownloadAssumption DEF Block
    <3>7. HasBlocks'
      BY <3>4, <3>5, <3>6 DEF HasBlocks, Blocks
    <3>8. result[d] = "failed" => cuts[d] > MaxRetries
      BY <1>2 DEF PlaceOK
    <3>. QED  BY <2>1, <2>3, <3>1, <3>2, <3>3, <3>6, <3>7, <3>8 DEF PlaceOK
  <2>13. CASE Close(d)
    <3>1. /\ pc[d] = "body" /\ next[d] > Size[source[d]] /\ file' = file
          /\ pc'[d] = "verify" /\ UNCHANGED <<retries, result, cuts>>
      BY <2>13 DEF Close, Kept, histVars, TypeOK
    <3>2. source[d] = 1 /\ HasBlocks /\ next[d] = Len(file) + 1
      BY <1>2, <3>1 DEF PlaceOK
    <3>3. PICK n \in 0..Size[1] : file = Blocks(1, n) /\ Len(file) = n
      BY <2>6, <3>2
    <3>4. n = Size[1]
      BY <2>7, <3>1, <3>2, <3>3
    <3>5. file' = Whole(1) /\ Whole(1)' = Whole(1)
      BY <3>1, <3>3, <3>4 DEF Whole, Blocks
    <3>6. HasBlocks'
      BY <3>1, <3>2 DEF HasBlocks, Blocks
    <3>7. result[d] = "failed" => cuts[d] > MaxRetries
      BY <1>2 DEF PlaceOK
    <3>. QED  BY <2>1, <2>3, <3>1, <3>5, <3>6, <3>7 DEF PlaceOK
  <2>14. CASE Verify(d) \/ Recheck(d)
    <3>1. pc[d] \in {"verify", "recheck"} /\ file' = file /\ UNCHANGED cuts
      BY <2>14 DEF Verify, Recheck, histVars
    <3>2. file = Whole(1) /\ Intact(expected[d]) /\ (result[d] = "failed" => cuts[d] > MaxRetries)
      BY <1>2, <2>1, <3>1 DEF PlaceOK, Intact
    <3>3. /\ pc'[d] \in {"recheck", "idle"} /\ UNCHANGED retries
          /\ result'[d] = result[d] \/ result'[d] = "completed"
      BY <2>14, <3>2 DEF Verify, Recheck, localVars, TypeOK
    <3>4. file' = None \/ HasBlocks'
      BY <1>2, <3>1 DEF HasBlocks, Blocks
    <3>5. Whole(1)' = Whole(1)
      BY DEF Whole, Blocks
    <3>. QED  BY <2>1, <2>3, <3>1, <3>2, <3>3, <3>4, <3>5 DEF PlaceOK
  <2>15. CASE Die(d)
    <3>1. pc'[d] = "idle" /\ file' = file /\ UNCHANGED <<retries, result, cuts>>
      BY <2>15 DEF Die, Kept, histVars, TypeOK
    <3>2. result[d] = "failed" => cuts[d] > MaxRetries
      BY <1>2 DEF PlaceOK
    <3>3. file' = None \/ HasBlocks'
      BY <1>2, <3>1 DEF HasBlocks, Blocks
    <3>. QED  BY <3>1, <3>2, <3>3 DEF PlaceOK
  <2>. QED  BY <1>6, <2>9, <2>10, <2>11, <2>12, <2>13, <2>14, <2>15
<1>. QED  BY <1>3, <1>4, <1>5, <1>6 DEF Next, CleanInv

\* The file of a download that only cuts and kills disturbed is a beginning of
\* the published file.
THEOREM FilesArePrefixes == Spec => []FileIsPrefix
<1>1. Init => CleanInv
  BY DEF Init, CleanInv, PlaceOK
<1>2. CleanInv => FileIsPrefix
  BY DEF CleanInv, HasBlocks, FileIsPrefix
<1>. QED  BY <1>1, <1>2, CleanInductive, DownloadTypeCorrect, PTL DEF Spec

\* Such a download fails only after every attempt was cut.
THEOREM RetriesAreEnough == Spec => []RetriesSuffice
<1>1. Init => CleanInv
  BY DEF Init, CleanInv, PlaceOK
<1>2. CleanInv => RetriesSuffice
  BY DEF CleanInv, PlaceOK, RetriesSuffice
<1>. QED  BY <1>1, <1>2, CleanInductive, DownloadTypeCorrect, PTL DEF Spec

-----------------------------------------------------------------------------
(* Feature pipelines.                                                      *)

IsSeq(m) == m \in Seq(ToSet(m))

\* A value that may be used for a key: unless the step of the key names no
\* columns, the transform of the key applied to the columns of the key, all of
\* them there, in some order.
Sound(k, v) ==
  k[3] # {} =>
    /\ v[1] = k[2] /\ ToSet(v[2]) = {p[2] : p \in k[3]}
    /\ \A p \in k[3] : p[2] # Missing

CacheSound ==
  /\ \A e \in Engine :
       /\ IsSeq(memory[e])
       /\ \A n \in DOMAIN memory[e] : Sound(memory[e][n][1], memory[e][n][2])
  /\ \A k \in DOMAIN disk : disk[k] = Torn \/ Sound(k, disk[k])

\* A step's column is what the step makes of the run's columns now.
Fresh(e, s) ==
  \/ pipeline[e][s].inputs = <<>>
  \/ ToSet(pipeline[e][s].inputs) \cap Raw \cap done[e] # {}
  \/ /\ ToSet(pipeline[e][s].inputs) \subseteq Raw \cup done[e]
     /\ SameUpToOrder(frame[e][s], Result(e, s))

WritesResult(e) ==
  \E s \in Steps(e) \ done[e] :
    /\ writing[e] = <<s, Key(e, s), Result(e, s)>>
    /\ Missing \notin Inputs(e, s)

RunSound(e) ==
  /\ ~Running(e) => done[e] = {} /\ writing[e] = <<>>
  /\ Running(e) =>
       /\ pipeline[e] \in Definitions
       /\ done[e] \subseteq Steps(e) /\ DOMAIN frame[e] = Raw \cup done[e]
       /\ writing[e] # <<>> => WritesResult(e)
       /\ \A s \in done[e] : Fresh(e, s)
  /\ e \in open => writing[e] # <<>>

FeatureDomains ==
  /\ DOMAIN memory = Engine /\ DOMAIN pipeline = Engine /\ DOMAIN frame = Engine
  /\ DOMAIN done = Engine /\ DOMAIN writing = Engine

FInv ==
  /\ definition \in Definitions /\ FeatureDomains /\ CacheSound
  /\ \A e \in Engine : RunSound(e)

LEMMA IsSeqOf ==
  ASSUME NEW S, NEW m \in Seq(S)
  PROVE  IsSeq(m)
<1>1. m \in [1..Len(m) -> ToSet(m)]
  BY DEF ToSet
<1> QED
  BY <1>1, SeqDef DEF IsSeq

\* Moving an entry to the end keeps the entries.
LEMMA MovedKeeps ==
  ASSUME NEW m, IsSeq(m), NEW n \in DOMAIN m
  PROVE  /\ IsSeq(MovedToEnd(m, n))
         /\ \A i \in DOMAIN MovedToEnd(m, n) : \E j \in DOMAIN m : MovedToEnd(m, n)[i] = m[j]
<1> DEFINE S == ToSet(m)
<1>1. m \in Seq(S) /\ n \in 1..Len(m) /\ Len(m) \in Nat
  BY DEF IsSeq
<1>2. SubSeq(m, 1, n - 1) \in Seq(S) /\ SubSeq(m, n + 1, Len(m)) \in Seq(S)
  BY <1>1, SubSeqProperties
<1>3. RemoveAt(m, n) \in Seq(S)
  BY <1>2, ConcatProperties DEF RemoveAt
<1>4. m[n] \in S
  BY DEF ToSet
<1>5. MovedToEnd(m, n) \in Seq(S)
  BY <1>3, <1>4, AppendProperties DEF MovedToEnd
<1>6. \A i \in DOMAIN MovedToEnd(m, n) : MovedToEnd(m, n)[i] \in S
  BY <1>5
<1> QED
  BY <1>5, <1>6, IsSeqOf DEF ToSet

\* Adding an entry at the end, or in the place of another.
LEMMA AppendSound ==
  ASSUME NEW m, IsSeq(m), NEW k, NEW v, Sound(k, v),
         \A n \in DOMAIN m : Sound(m[n][1], m[n][2])
  PROVE  LET a == Append(m, <<k, v>>)
         IN  IsSeq(a) /\ \A n \in DOMAIN a : Sound(a[n][1], a[n][2])
<1> DEFINE a == Append(m, <<k, v>>)
<1>1. m \in Seq(ToSet(m) \cup {<<k, v>>})
  BY SeqMonotonic DEF IsSeq
<1>2. a \in Seq(ToSet(m) \cup {<<k, v>>})
  BY <1>1, AppendProperties
<1>3. \A n \in DOMAIN a : a[n] \in ToSet(m) \cup {<<k, v>>}
  BY <1>2
<1>4. <<k, v>>[1] = k /\ <<k, v>>[2] = v
  OBVIOUS
<1>5. \A x \in ToSet(m) \cup {<<k, v>>} : Sound(x[1], x[2])
  BY <1>4 DEF ToSet
<1>6. IsSeq(a)
  BY <1>2, IsSeqOf
<1> QED
  BY <1>3, <1>5, <1>6

LEMMA ReplaceSound ==
  ASSUME NEW m, IsSeq(m), NEW k, NEW v, Sound(k, v),
         \A n \in DOMAIN m : Sound(m[n][1], m[n][2])
  PROVE  LET a == [n \in DOMAIN m |-> IF m[n][1] = k THEN <<k, v>> ELSE m[n]]
         IN  IsSeq(a) /\ \A n \in DOMAIN a : Sound(a[n][1], a[n][2])
<1> DEFINE a == [n \in DOMAIN m |-> IF m[n][1] = k THEN <<k, v>> ELSE m[n]]
<1>1. m \in Seq(ToSet(m)) /\ Len(m) \in Nat /\ DOMAIN m = 1..Len(m)
  BY DEF IsSeq
<1>2. \A n \in DOMAIN m : a[n] \in ToSet(m) \cup {<<k, v>>}
  BY DEF ToSet
<1>3. a \in [1..Len(m) -> ToSet(m) \cup {<<k, v>>}]
  BY <1>1, <1>2
<1>4. a \in Seq(ToSet(m) \cup {<<k, v>>})
  BY <1>1, <1>3, SeqDef
<1>5. <<k, v>>[1] = k /\ <<k, v>>[2] = v
  OBVIOUS
<1>6. \A x \in ToSet(m) \cup {<<k, v>>} : Sound(x[1], x[2])
  BY <1>5 DEF ToSet
<1>7. IsSeq(a)
  BY <1>4, IsSeqOf
<1> QED
  BY <1>2, <1>6, <1>7

-----------------------------------------------------------------------------
(* Keys and results.                                                       *)

\* The values a key holds are those the transform is applied to.
ColumnsOf(e, ins) == {<<col, Value(e, col)>> : col \in ToSet(ins)}
ValuesOf(e, ins) == [n \in DOMAIN ins |-> Value(e, ins[n])]

LEMMA KeyHoldsValues ==
  ASSUME NEW e, NEW ins
  PROVE  /\ ToSet(ValuesOf(e, ins)) = {p[2] : p \in ColumnsOf(e, ins)}
         /\ \A col \in ToSet(ins) : Value(e, col) \in {p[2] : p \in ColumnsOf(e, ins)}
<1> DEFINE seconds == {p[2] : p \in ColumnsOf(e, ins)}
<1>1. \A col \in ToSet(ins) : Value(e, col) \in seconds
  <2> TAKE col \in ToSet(ins)
  <2>1. <<col, Value(e, col)>> \in ColumnsOf(e, ins)
    BY DEF ColumnsOf
  <2>2. <<col, Value(e, col)>>[2] = Value(e, col)
    OBVIOUS
  <2> QED
    BY <2>1, <2>2
<1>2. \A n \in DOMAIN ins : ins[n] \in ToSet(ins)
  BY DEF ToSet
<1>3. ToSet(ValuesOf(e, ins)) \subseteq seconds
  BY <1>1, <1>2 DEF ToSet, ValuesOf
<1>4. seconds \subseteq ToSet(ValuesOf(e, ins))
  <2> SUFFICES ASSUME NEW p \in ColumnsOf(e, ins)
               PROVE  p[2] \in ToSet(ValuesOf(e, ins))
    OBVIOUS
  <2>1. PICK col \in ToSet(ins) : p = <<col, Value(e, col)>>
    BY DEF ColumnsOf
  <2>2. PICK n \in DOMAIN ins : ins[n] = col
    BY DEF ToSet
  <2>3. ValuesOf(e, ins)[n] = p[2] /\ n \in DOMAIN ValuesOf(e, ins)
    BY <2>1, <2>2 DEF ValuesOf
  <2> QED
    BY <2>3 DEF ToSet
<1> QED
  BY <1>1, <1>3, <1>4

\* What a step computes from columns that are there may be used for its key.
LEMMA ResultIsSound ==
  ASSUME NEW e \in Engine, NEW s \in Steps(e), Missing \notin Inputs(e, s)
  PROVE  Sound(Key(e, s), Result(e, s))
<1> DEFINE ins == pipeline[e][s].inputs
           cols == ColumnsOf(e, ins)
           vals == ValuesOf(e, ins)
<1>1. SUFFICES ASSUME cols # {}
               PROVE  /\ Result(e, s)[1] = pipeline[e][s].fn
                      /\ ToSet(Result(e, s)[2]) = {p[2] : p \in cols}
                      /\ \A p \in cols : p[2] # Missing
  BY DEF Sound, Key, ColumnsOf
<1>2. ins # <<>>
  BY <1>1 DEF ToSet, ColumnsOf
<1>3. Result(e, s) = <<pipeline[e][s].fn, vals>>
  BY <1>2 DEF Result, ValuesOf
<1>4. ToSet(vals) = {p[2] : p \in cols}
  BY KeyHoldsValues
<1>5. \A p \in cols : p[2] \in Inputs(e, s)
  BY DEF Inputs, ColumnsOf
<1> QED
  BY <1>3, <1>4, <1>5

\* A value for a step's key is what the step makes of the present columns.
LEMMA SoundIsSame ==
  ASSUME NEW e \in Engine, NEW s \in Steps(e), pipeline[e] \in Definitions,
         NEW v, Sound(Key(e, s), v), pipeline[e][s].inputs # <<>>
  PROVE  /\ ToSet(pipeline[e][s].inputs) \subseteq DOMAIN frame[e]
         /\ SameUpToOrder(v, Result(e, s))
<1> DEFINE ins == pipeline[e][s].inputs
           cols == ColumnsOf(e, ins)
           vals == ValuesOf(e, ins)
<1>1. ins \in Seq(ToSet(ins)) /\ ins # <<>>
  BY FeatureAssumption DEF Steps
<1>2. cols # {}
  <2>1. 1 \in DOMAIN ins
    BY <1>1
  <2> QED
    BY <2>1 DEF ToSet, ColumnsOf
<1>3. /\ v[1] = pipeline[e][s].fn /\ ToSet(v[2]) = {p[2] : p \in cols}
      /\ \A p \in cols : p[2] # Missing
  BY <1>2 DEF Sound, Key, ColumnsOf
<1>4. Result(e, s) = <<pipeline[e][s].fn, vals>>
  BY <1>1 DEF Result, ValuesOf
<1>5. ToSet(vals) = {p[2] : p \in cols}
  BY KeyHoldsValues
<1>6. \A col \in ToSet(ins) : Value(e, col) # Missing
  BY <1>3, KeyHoldsValues
<1>7. ToSet(ins) \subseteq DOMAIN frame[e]
  BY <1>6 DEF Value
<1> QED
  BY <1>3, <1>4, <1>5, <1>7 DEF SameUpToOrder

\* What a step is made of depends on the columns it reads only.
LEMMA ResultDepends ==
  ASSUME NEW e \in Engine, NEW s, pipeline' = pipeline, pipeline[e][s].inputs # <<>>,
         ToSet(pipeline[e][s].inputs) \subseteq DOMAIN frame[e],
         \A col \in ToSet(pipeline[e][s].inputs) :
           col \in DOMAIN frame'[e] /\ frame'[e][col] = frame[e][col]
  PROVE  Result(e, s)' = Result(e, s)
<1> DEFINE ins == pipeline[e][s].inputs
<1>1. \A n \in DOMAIN ins : Value(e, ins[n])' = Value(e, ins[n])
  BY DEF Value, ToSet
<1> QED
  BY <1>1 DEF Result

-----------------------------------------------------------------------------
(* Runs.                                                                   *)

\* A run that is not touched stays as sound as it was.
LEMMA OthersSound ==
  ASSUME NEW f \in Engine, RunSound(f), f \in open' => f \in open,
         pipeline'[f] = pipeline[f], frame'[f] = frame[f],
         done'[f] = done[f], writing'[f] = writing[f]
  PROVE  RunSound(f)'
<1>1. /\ Running(f)' = Running(f) /\ Steps(f)' = Steps(f)
      /\ \A s : Result(f, s)' = Result(f, s) /\ Key(f, s)' = Key(f, s) /\ Inputs(f, s)' = Inputs(f, s)
  BY DEF Running, Steps, Result, Key, Inputs, Value
<1>2. WritesResult(f) => WritesResult(f)'
  BY <1>1 DEF WritesResult
<1>3. \A s : Fresh(f, s) => Fresh(f, s)'
  BY <1>1 DEF Fresh, SameUpToOrder
<1> QED
  BY <1>1, <1>2, <1>3 DEF RunSound

\* A column that is added keeps the others, and is fresh if its value may be
\* used for the step's key.
LEMMA ApplyFresh ==
  ASSUME NEW e \in Engine, FeatureDomains, RunSound(e), Running(e),
         NEW s \in Steps(e) \ done[e], NEW v, Sound(Key(e, s), v),
         Apply(e, s, v), pipeline' = pipeline
  PROVE  /\ done'[e] \subseteq Steps(e) /\ DOMAIN frame'[e] = Raw \cup done'[e]
         /\ \A t \in done'[e] : Fresh(e, t)'
<1>1. /\ done'[e] = done[e] \cup {s}
      /\ frame'[e] = With(frame[e], s, v)
  BY DEF Apply, FeatureDomains
<1>2. /\ DOMAIN frame[e] = Raw \cup done[e] /\ done[e] \subseteq Steps(e)
      /\ pipeline[e] \in Definitions /\ \A t \in done[e] : Fresh(e, t)
  BY DEF RunSound
<1>3. /\ DOMAIN frame'[e] = Raw \cup done'[e]
      /\ frame'[e][s] = v
      /\ \A col \in (Raw \cup done[e]) \ {s} : frame'[e][col] = frame[e][col]
  BY <1>1, <1>2 DEF With
<1>4. ASSUME NEW t \in done'[e]
      PROVE  Fresh(e, t)'
  <2> DEFINE ins == pipeline[e][t].inputs
  <2>1. SUFFICES ASSUME ins # <<>>, ToSet(ins) \cap Raw \cap done'[e] = {}
                 PROVE  /\ ToSet(ins) \subseteq Raw \cup done'[e]
                        /\ SameUpToOrder(frame'[e][t], Result(e, t)')
    BY DEF Fresh, SameUpToOrder
  <2>2. /\ ToSet(ins) \subseteq Raw \cup done[e]
        /\ SameUpToOrder(frame'[e][t], Result(e, t))
    <3>1. CASE t = s
      BY <1>2, <1>3, <2>1, <3>1, SoundIsSame
    <3>2. CASE t # s
      <4>1. t \in done[e] /\ ToSet(ins) \cap Raw \cap done[e] = {}
        BY <1>1, <2>1, <3>2
      <4>2. /\ ToSet(ins) \subseteq Raw \cup done[e]
            /\ SameUpToOrder(frame[e][t], Result(e, t))
        BY <1>2, <2>1, <4>1 DEF Fresh
      <4>3. frame'[e][t] = frame[e][t]
        BY <1>3, <3>2, <4>1
      <4> QED
        BY <4>2, <4>3
    <3> QED
      BY <3>1, <3>2
  <2>3. s \notin ToSet(ins)
    BY <1>1, <2>1, <2>2
  <2>4. Result(e, t)' = Result(e, t)
    <3>1. \A col \in ToSet(ins) : col \in DOMAIN frame'[e] /\ frame'[e][col] = frame[e][col]
      BY <1>1, <1>3, <2>2, <2>3
    <3> QED
      BY <1>2, <2>1, <2>2, <3>1, ResultDepends
  <2> QED
    BY <1>1, <2>2, <2>4
<1> QED
  BY <1>1, <1>2, <1>3, <1>4

-----------------------------------------------------------------------------
(* Steps.                                                                  *)

\* A run that ends leaves nothing behind.
LEMMA EndSound ==
  ASSUME FInv, NEW e \in Engine, NEW how, End(e, how)
  PROVE  /\ \A f \in Engine : RunSound(f)'
         /\ DOMAIN pipeline' = Engine /\ DOMAIN frame' = Engine
         /\ DOMAIN done' = Engine /\ DOMAIN writing' = Engine
<1>1. /\ pipeline'[e] = NoRun /\ done'[e] = {} /\ writing'[e] = <<>> /\ e \notin open'
      /\ \A f \in Engine \ {e} :
           /\ pipeline'[f] = pipeline[f] /\ frame'[f] = frame[f]
           /\ done'[f] = done[f] /\ writing'[f] = writing[f]
           /\ f \in open' => f \in open
  BY DEF End, FInv, FeatureDomains
<1>2. RunSound(e)'
  BY <1>1 DEF RunSound, Running
<1>3. \A f \in Engine \ {e} : RunSound(f)'
  BY <1>1, OthersSound DEF FInv
<1>4. /\ DOMAIN pipeline' = Engine /\ DOMAIN frame' = Engine
      /\ DOMAIN done' = Engine /\ DOMAIN writing' = Engine
  BY DEF End, FInv, FeatureDomains
<1> QED
  BY <1>2, <1>3, <1>4

LEMMA CacheKept ==
  ASSUME CacheSound, UNCHANGED <<memory, disk>>
  PROVE  CacheSound'
BY DEF CacheSound

LEMMA DefineSound ==
  ASSUME FInv, Define
  PROVE  FInv'
<1>1. /\ UNCHANGED <<cacheVars, runVars>> /\ definition' \in Definitions
  BY DEF Define
<1>2. CacheSound' /\ FeatureDomains'
  BY <1>1, CacheKept DEF FInv, FeatureDomains, cacheVars, runVars
<1>3. \A f \in Engine : RunSound(f)'
  BY <1>1, OthersSound DEF FInv, runVars
<1> QED
  BY <1>1, <1>2, <1>3 DEF FInv

LEMMA BeginSound ==
  ASSUME FInv, NEW e \in Engine, Begin(e)
  PROVE  FInv'
<1>1. /\ UNCHANGED <<definition, cacheVars, done, writing, open>>
      /\ ~Running(e) /\ done[e] = {} /\ writing[e] = <<>> /\ e \notin open
  BY DEF Begin, FInv, RunSound
<1>2. CacheSound' /\ definition' \in Definitions
  BY <1>1, CacheKept DEF FInv, cacheVars
<1>3. CASE Acyclic(definition)
  <2>1. /\ pipeline' = [pipeline EXCEPT ![e] = definition]
        /\ \E f \in [Raw -> Frames] : frame' = [frame EXCEPT ![e] = f]
    BY <1>3 DEF Begin
  <2>2. /\ pipeline'[e] = definition /\ DOMAIN frame'[e] = Raw
        /\ \A f \in Engine \ {e} : pipeline'[f] = pipeline[f] /\ frame'[f] = frame[f]
        /\ FeatureDomains'
    BY <1>1, <2>1 DEF FInv, FeatureDomains, cacheVars
  <2>3. RunSound(e)'
    BY <1>1, <2>2 DEF RunSound, FInv
  <2>4. \A f \in Engine \ {e} : RunSound(f)'
    BY <1>1, <2>2, OthersSound DEF FInv
  <2> QED
    BY <1>2, <2>2, <2>3, <2>4 DEF FInv
<1>4. CASE ~Acyclic(definition)
  <2>1. UNCHANGED <<pipeline, frame>>
    BY <1>4 DEF Begin
  <2>2. \A f \in Engine : RunSound(f)'
    BY <1>1, <2>1, OthersSound DEF FInv
  <2> QED
    BY <1>1, <1>2, <2>1, <2>2 DEF FInv, FeatureDomains, cacheVars
<1> QED
  BY <1>3, <1>4

\* A step that takes or has computed a value that may be used for its key.
LEMMA ApplySound ==
  ASSUME FInv, NEW e \in Engine, Running(e), NEW s \in Steps(e) \ done[e], NEW v,
         Sound(Key(e, s), v), Apply(e, s, v), UNCHANGED pipeline,
         writing' = writing \/ writing' = [writing EXCEPT ![e] = <<>>],
         writing'[e] = <<>>, open' \subseteq open, e \notin open'
  PROVE  /\ \A f \in Engine : RunSound(f)'
         /\ DOMAIN frame' = Engine /\ DOMAIN done' = Engine /\ DOMAIN writing' = Engine
<1>1. /\ done'[e] \subseteq Steps(e) /\ DOMAIN frame'[e] = Raw \cup done'[e]
      /\ \A t \in done'[e] : Fresh(e, t)'
  BY ApplyFresh DEF FInv
<1>2. RunSound(e)'
  BY <1>1 DEF RunSound, FInv, Running, Steps
<1>3. \A f \in Engine \ {e} :
        /\ pipeline'[f] = pipeline[f] /\ frame'[f] = frame[f]
        /\ done'[f] = done[f] /\ writing'[f] = writing[f]
  BY DEF Apply, FInv, FeatureDomains
<1>4. \A f \in Engine \ {e} : RunSound(f)'
  BY <1>3, OthersSound DEF FInv
<1>5. DOMAIN frame' = Engine /\ DOMAIN done' = Engine /\ DOMAIN writing' = Engine
  BY DEF Apply, FInv, FeatureDomains
<1> QED
  BY <1>2, <1>4, <1>5

\* A memory that holds only what another sound one and one value may.
LEMMA MemorySound ==
  ASSUME FInv, NEW e \in Engine, NEW m, memory' = [memory EXCEPT ![e] = m], IsSeq(m),
         \A n \in DOMAIN m : Sound(m[n][1], m[n][2]), UNCHANGED disk
  PROVE  CacheSound' /\ DOMAIN memory' = Engine
<1>1. /\ memory'[e] = m /\ DOMAIN memory' = Engine
      /\ \A f \in Engine \ {e} : memory'[f] = memory[f]
  BY DEF FInv, FeatureDomains
<1> QED
  BY <1>1 DEF FInv, CacheSound

LEMMA NextStepsRun ==
  ASSUME FInv, NEW e \in Engine, NEW s \in NextSteps(e)
  PROVE  /\ Running(e) /\ s \in Steps(e) \ done[e] /\ writing[e] = <<>> /\ e \notin open
<1>1. s \in Steps(e) \ done[e] /\ writing[e] = <<>>
  BY DEF NextSteps
<1>2. pipeline[e] # <<>>
  BY <1>1 DEF Steps
<1> QED
  BY <1>1, <1>2 DEF Running, NoRun, FInv, RunSound

LEMMA HitMemorySound ==
  ASSUME FInv, NEW e \in Engine, NEW s \in NextSteps(e), HitMemory(e, s)
  PROVE  FInv'
<1>1. PICK n \in DOMAIN memory[e] :
        /\ memory[e][n][1] = Key(e, s)
        /\ memory' = [memory EXCEPT ![e] = MovedToEnd(memory[e], n)]
        /\ Apply(e, s, memory[e][n][2])
  BY DEF HitMemory
<1>2. UNCHANGED <<definition, disk, pipeline, writing, open>>
  BY DEF HitMemory
<1>3. /\ IsSeq(memory[e]) /\ \A i \in DOMAIN memory[e] : Sound(memory[e][i][1], memory[e][i][2])
  BY DEF FInv, CacheSound
<1>4. CacheSound' /\ DOMAIN memory' = Engine
  <2> DEFINE m == MovedToEnd(memory[e], n)
  <2>1. IsSeq(m) /\ \A i \in DOMAIN m : \E j \in DOMAIN memory[e] : m[i] = memory[e][j]
    BY <1>3, MovedKeeps
  <2>2. \A i \in DOMAIN m : Sound(m[i][1], m[i][2])
    BY <1>3, <2>1
  <2> QED
    BY <1>1, <1>2, <2>1, <2>2, MemorySound
<1>5. /\ \A f \in Engine : RunSound(f)'
      /\ DOMAIN frame' = Engine /\ DOMAIN done' = Engine /\ DOMAIN writing' = Engine
  BY <1>1, <1>2, <1>3, NextStepsRun, ApplySound
<1> QED
  BY <1>2, <1>4, <1>5 DEF FInv, FeatureDomains

LEMMA HitDiskSound ==
  ASSUME FInv, NEW e \in Engine, NEW s \in NextSteps(e), HitDisk(e, s)
  PROVE  FInv'
<1> DEFINE k == Key(e, s)
           m == Append(memory[e], <<k, disk[k]>>)
<1>1. /\ ~InMemory(e, k) /\ Has(e, s) /\ disk[k] # Torn
      /\ memory' = [memory EXCEPT ![e] = m] /\ Apply(e, s, disk[k])
      /\ UNCHANGED <<definition, disk, pipeline, writing, open>>
  BY DEF HitDisk
<1>2. Sound(k, disk[k])
  BY <1>1 DEF Has, OnDisk, FInv, CacheSound
<1>3. /\ IsSeq(memory[e]) /\ \A i \in DOMAIN memory[e] : Sound(memory[e][i][1], memory[e][i][2])
  BY DEF FInv, CacheSound
<1>4. IsSeq(m) /\ \A i \in DOMAIN m : Sound(m[i][1], m[i][2])
  BY <1>2, <1>3, AppendSound
<1>5. CacheSound' /\ DOMAIN memory' = Engine
  BY <1>1, <1>4, MemorySound
<1>6. /\ \A f \in Engine : RunSound(f)'
      /\ DOMAIN frame' = Engine /\ DOMAIN done' = Engine /\ DOMAIN writing' = Engine
  BY <1>1, <1>2, NextStepsRun, ApplySound
<1> QED
  BY <1>1, <1>5, <1>6 DEF FInv, FeatureDomains

\* What set() leaves in memory.
LEMMA EvictedSound ==
  ASSUME NEW m, IsSeq(m), NEW k, NEW v, Sound(k, v), NEW i \in Int, i >= 1,
         \A n \in DOMAIN m : Sound(m[n][1], m[n][2])
  PROVE  LET room == SubSeq(m, i, Len(m))
         IN  IsSeq(room) /\ \A n \in DOMAIN room : Sound(room[n][1], room[n][2])
<1> DEFINE room == SubSeq(m, i, Len(m))
<1>1. m \in Seq(ToSet(m)) /\ Len(m) \in Nat /\ DOMAIN m = 1..Len(m)
  BY DEF IsSeq
<1>2. room \in Seq(ToSet(m))
  BY <1>1, SubSeqProperties
<1>3. \A n \in DOMAIN room : room[n] \in ToSet(m)
  BY <1>2
<1> QED
  BY <1>2, <1>3, IsSeqOf DEF ToSet

LEMMA MissSound ==
  ASSUME FInv, NEW e \in Engine, NEW s \in NextSteps(e), Miss(e, s)
  PROVE  FInv'
<1> DEFINE k == Key(e, s)
           v == Result(e, s)
           room == IF Len(memory[e]) < Capacity THEN memory[e]
                   ELSE SubSeq(memory[e], Len(memory[e]) - Capacity + 2, Len(memory[e]))
           kept == IF \E n \in DOMAIN room : room[n][1] = k
                   THEN [n \in DOMAIN room |-> IF room[n][1] = k THEN <<k, v>> ELSE room[n]]
                   ELSE Append(room, <<k, v>>)
<1>1. /\ Missing \notin Inputs(e, s)
      /\ memory' = [memory EXCEPT ![e] = kept]
      /\ writing' = [writing EXCEPT ![e] = <<s, k, v>>]
      /\ UNCHANGED <<definition, disk, pipeline, frame, done, open>>
  BY DEF Miss
<1>2. /\ Running(e) /\ s \in Steps(e) \ done[e]
  BY NextStepsRun
<1>3. Sound(k, v)
  BY <1>1, <1>2, ResultIsSound
<1>4. IsSeq(room) /\ \A n \in DOMAIN room : Sound(room[n][1], room[n][2])
  <2>1. /\ IsSeq(memory[e]) /\ \A i \in DOMAIN memory[e] : Sound(memory[e][i][1], memory[e][i][2])
    BY DEF FInv, CacheSound
  <2>2. CASE Len(memory[e]) < Capacity
    BY <2>1, <2>2
  <2>3. CASE ~(Len(memory[e]) < Capacity)
    <3> DEFINE i == Len(memory[e]) - Capacity + 2
    <3>1. i \in Int /\ i >= 1
      BY <2>1, <2>3, FeatureAssumption DEF IsSeq
    <3> HIDE DEF i
    <3>2. /\ IsSeq(SubSeq(memory[e], i, Len(memory[e])))
          /\ \A n \in DOMAIN SubSeq(memory[e], i, Len(memory[e])) :
               Sound(SubSeq(memory[e], i, Len(memory[e]))[n][1], SubSeq(memory[e], i, Len(memory[e]))[n][2])
      BY <1>3, <2>1, <3>1, EvictedSound
    <3> QED
      BY <2>3, <3>2 DEF i
  <2> QED
    BY <2>2, <2>3
<1>5. IsSeq(kept) /\ \A n \in DOMAIN kept : Sound(kept[n][1], kept[n][2])
  <2> HIDE DEF room, k, v
  <2>1. CASE \E n \in DOMAIN room : room[n][1] = k
    BY <1>3, <1>4, <2>1, ReplaceSound
  <2>2. CASE ~\E n \in DOMAIN room : room[n][1] = k
    BY <1>3, <1>4, <2>2, AppendSound
  <2> QED
    BY <2>1, <2>2
<1>6. CacheSound' /\ DOMAIN memory' = Engine
  BY <1>1, <1>5, MemorySound
<1>7. /\ writing'[e] = <<s, k, v>> /\ DOMAIN writing' = Engine
      /\ \A f \in Engine \ {e} : writing'[f] = writing[f]
  BY <1>1 DEF FInv, FeatureDomains
<1>8. RunSound(e)'
  <2>1. /\ Key(e, s)' = k /\ v' = v /\ Inputs(e, s)' = Inputs(e, s) /\ Running(e)' /\ Steps(e)' = Steps(e)
        /\ \A t : Result(e, t)' = Result(e, t)
    BY <1>1, <1>2 DEF Running, Steps, Result, Key, Inputs, Value
  <2>2. WritesResult(e)'
    BY <1>1, <1>2, <1>7, <2>1 DEF WritesResult
  <2>3. \A t : Fresh(e, t) => Fresh(e, t)'
    BY <1>1, <2>1 DEF Fresh, SameUpToOrder
  <2>4. writing'[e] # <<>>
    BY <1>7
  <2>5. RunSound(e)
    BY DEF FInv
  <2> QED
    BY <1>1, <1>2, <2>1, <2>2, <2>3, <2>4, <2>5 DEF RunSound
<1>9. \A f \in Engine \ {e} : RunSound(f)'
  BY <1>1, <1>7, OthersSound DEF FInv
<1> QED
  BY <1>1, <1>6, <1>7, <1>8, <1>9 DEF FInv, FeatureDomains

LEMMA OpenSound ==
  ASSUME FInv, NEW e \in Engine, Open(e)
  PROVE  FInv'
<1>1. /\ writing[e] # <<>> /\ open' = open \cup {e} /\ disk' = With(disk, writing[e][2], Torn)
      /\ UNCHANGED <<definition, memory, pipeline, frame, done, writing>>
  BY DEF Open
<1>2. CacheSound'
  BY <1>1 DEF FInv, CacheSound, With
<1>3. RunSound(e)'
  <2>1. RunSound(e) /\ Running(e)
    BY <1>1 DEF FInv, RunSound
  <2>2. /\ Running(e)' /\ Steps(e)' = Steps(e)
        /\ \A t : Result(e, t)' = Result(e, t) /\ Key(e, t)' = Key(e, t) /\ Inputs(e, t)' = Inputs(e, t)
    BY <1>1, <2>1 DEF Running, Steps, Result, Key, Inputs, Value
  <2>3. WritesResult(e)'
    BY <1>1, <2>1, <2>2 DEF WritesResult, RunSound
  <2>4. \A t : Fresh(e, t) => Fresh(e, t)'
    BY <1>1, <2>2 DEF Fresh, SameUpToOrder
  <2> QED
    BY <1>1, <2>1, <2>2, <2>3, <2>4 DEF RunSound
<1>4. \A f \in Engine \ {e} : RunSound(f)'
  BY <1>1, OthersSound DEF FInv
<1> QED
  BY <1>1, <1>2, <1>3, <1>4 DEF FInv, FeatureDomains

LEMMA PickledSound ==
  ASSUME FInv, NEW e \in Engine, Pickled(e)
  PROVE  FInv'
<1>1. e \in open /\ writing[e] # <<>> /\ Running(e)
  BY DEF Pickled, FInv, RunSound
<1>2. PICK s \in Steps(e) \ done[e] :
        writing[e] = <<s, Key(e, s), Result(e, s)>> /\ Missing \notin Inputs(e, s)
  BY <1>1 DEF FInv, RunSound, WritesResult
<1> DEFINE k == Key(e, s)
           v == Result(e, s)
<1>3. writing[e][1] = s /\ writing[e][2] = k /\ writing[e][3] = v
  BY <1>2
<1>4. /\ \/ disk' = [disk EXCEPT ![k] = v]
         \/ disk' = [disk EXCEPT ![k] = Torn]
      /\ Apply(e, s, v) /\ writing' = [writing EXCEPT ![e] = <<>>] /\ open' = open \ {e}
      /\ UNCHANGED <<definition, memory, pipeline>>
  BY <1>3 DEF Pickled
<1>5. Sound(k, v)
  BY <1>1, <1>2, ResultIsSound
<1>6. CacheSound'
  BY <1>4, <1>5 DEF FInv, CacheSound
<1>7. writing'[e] = <<>>
  BY <1>4 DEF FInv, FeatureDomains
<1>8. /\ \A f \in Engine : RunSound(f)'
      /\ DOMAIN frame' = Engine /\ DOMAIN done' = Engine /\ DOMAIN writing' = Engine
  BY <1>1, <1>4, <1>5, <1>7, ApplySound
<1> QED
  BY <1>4, <1>6, <1>8 DEF FInv, FeatureDomains

\* A step that ends a run, or starts its process again.
LEMMA EndingSound ==
  ASSUME FInv, NEW e \in Engine, NEW how, End(e, how), UNCHANGED <<definition, disk>>,
         memory' = memory \/ memory' = [memory EXCEPT ![e] = <<>>]
  PROVE  FInv'
<1>1. CacheSound' /\ DOMAIN memory' = Engine
  <2>1. CASE memory' = memory
    BY <2>1, CacheKept DEF FInv, FeatureDomains
  <2>2. CASE memory' = [memory EXCEPT ![e] = <<>>]
    <3>1. <<>> \in Seq({}) /\ \A n \in DOMAIN <<>> : Sound(<<>>[n][1], <<>>[n][2])
      OBVIOUS
    <3>2. IsSeq(<<>>)
      BY <3>1, IsSeqOf
    <3> QED
      BY <2>2, <3>1, <3>2, MemorySound
  <2> QED
    BY <2>1, <2>2
<1> QED
  BY <1>1, EndSound DEF FInv, FeatureDomains

LEMMA FeatureStep ==
  ASSUME FInv, [FeatureNext]_featureVars
  PROVE  FInv'
<1>1. CASE Define
  BY <1>1, DefineSound
<1>2. ASSUME NEW e \in Engine, Begin(e) \/ Open(e) \/ Pickled(e)
      PROVE  FInv'
  BY <1>2, BeginSound, OpenSound, PickledSound
<1>3. ASSUME NEW e \in Engine, PickleFails(e) \/ Complete(e) \/ Kill(e)
      PROVE  FInv'
  BY <1>3, EndingSound DEF PickleFails, Complete, Kill, cacheVars
<1>4. ASSUME NEW e \in Engine, NEW s \in NextSteps(e), HitTorn(e, s) \/ StepFails(e, s)
      PROVE  FInv'
  BY <1>4, EndingSound DEF HitTorn, StepFails, cacheVars
<1>5. ASSUME NEW e \in Engine, NEW s \in NextSteps(e), HitMemory(e, s) \/ HitDisk(e, s) \/ Miss(e, s)
      PROVE  FInv'
  BY <1>5, HitMemorySound, HitDiskSound, MissSound
<1>6. CASE UNCHANGED featureVars
  <2>1. \A f \in Engine : RunSound(f)'
    BY <1>6, OthersSound DEF FInv, featureVars, runVars
  <2> QED
    BY <1>6, <2>1, CacheKept DEF FInv, FeatureDomains, featureVars, cacheVars, runVars
<1> QED
  BY <1>1, <1>2, <1>3, <1>4, <1>5, <1>6 DEF FeatureNext

LEMMA FeatureStart == FeatureInit => FInv
<1> SUFFICES ASSUME FeatureInit
             PROVE  FInv
  OBVIOUS
<1>1. <<>> \in Seq({})
  OBVIOUS
<1>2. IsSeq(<<>>)
  BY <1>1, IsSeqOf
<1>. DOMAIN <<>> = {}
  OBVIOUS
<1>3. CacheSound
  BY <1>2 DEF FeatureInit, CacheSound
<1>4. \A e \in Engine : RunSound(e)
  BY DEF FeatureInit, RunSound, Running
<1> QED
  BY <1>3, <1>4 DEF FeatureInit, FInv, FeatureDomains

\* For any engines, definitions, frames, runs, kills and any capacity
\* of at least one: a column that came from a cache is what the step would compute.
THEOREM RunsAlwaysFresh == FeatureSpec => []RunsAreFresh
<1>1. FInv => RunsAreFresh
  BY DEF FInv, RunSound, Fresh, RunsAreFresh
<1> QED
  BY <1>1, FeatureStart, FeatureStep, PTL DEF FeatureSpec
=============================================================================
