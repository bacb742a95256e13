---------------------------- MODULE DnaStore_proofs ----------------------------
(***************************************************************************)
(* Proofs about DnaStore, for any sessions, sources, lengths and failures: *)
(* its types and, while sources that share a path have the same DNA, that  *)
(* a file holds the beginning of its DNA, stays complete once it was, and  *)
(* is complete when a save is answered with ok.                            *)
(***************************************************************************)
EXTENDS DnaStore, SequenceTheorems, TLAPS

Opening == {"save_open", "create_new"}
Saving == {"save_open", "save_length", "save_write"}
Downloading == {"fetch", "download_write"}

\* What a handler that is under way has: a source, and an open file.
HandlerInv ==
    \A c \in Sessions : pc[c] # "idle" =>
        /\ req[c] \in Sources /\ offset[c] < Length[Dna(c)]
        /\ pc[c] \in Saving <=> req[c].scheme = "save"
        /\ pc[c] \in Opening \cup {"save_length", "fetch"} => offset[c] = 0
        /\ pc[c] \notin Opening => File(c) # None

\* A block is written in the background to a file that is there.
UnflushedInv == \A w \in unflushed : files[w.path] # None

TypeInv == TypeOK /\ HandlerInv /\ UnflushedInv

USE SourcesAssumption, BoundsAssumption

-----------------------------------------------------------------------------
\* A write gives a file of the same kind, no shorter, with the block in its place.
LEMMA WriteExtends ==
    ASSUME NEW file \in Seq(Dnas), NEW i \in Nat, NEW dna \in Dnas
    PROVE  /\ Written(file, i, dna) \in Seq(Dnas)
           /\ Len(file) <= Len(Written(file, i, dna))
           /\ i <= Len(file) =>
                /\ i + 1 <= Len(Written(file, i, dna))
                /\ Len(Written(file, i, dna)) = IF i < Len(file) THEN Len(file) ELSE i + 1
           /\ \A j \in 1 .. Len(Written(file, i, dna)) :
                Written(file, i, dna)[j] = dna \/ (j <= Len(file) /\ Written(file, i, dna)[j] = file[j])
  <1>1. CASE i < Len(file)
    <2>1. i + 1 \in 1 .. Len(file)
          BY <1>1
    <2>2. Written(file, i, dna) = [file EXCEPT ![i + 1] = dna]
          BY <1>1 DEF Written
    <2>3. [file EXCEPT ![i + 1] = dna] \in Seq(Dnas)
          /\ Len([file EXCEPT ![i + 1] = dna]) = Len(file)
          /\ \A j \in 1 .. Len(file) :
                [file EXCEPT ![i + 1] = dna][j] = IF j = i + 1 THEN dna ELSE file[j]
          BY <2>1, ExceptSeq
    <2> QED BY <1>1, <2>2, <2>3
  <1>2. CASE ~(i < Len(file))
    <2>1. Written(file, i, dna) = Append(file, dna)
          BY <1>2 DEF Written
    <2>2. /\ Append(file, dna) \in Seq(Dnas) /\ Len(Append(file, dna)) = Len(file) + 1
          /\ \A j \in 1 .. Len(file) : Append(file, dna)[j] = file[j]
          /\ Append(file, dna)[Len(file) + 1] = dna
          BY AppendProperties
    <2>3. Len(file) \in Nat
          BY LenProperties
    <2> HIDE DEF Written
    <2>4. \A j \in 1 .. Len(file) + 1 : j \in 1 .. Len(file) \/ j = Len(file) + 1
          BY <2>3
    <2>5. i <= Len(file) => i = Len(file)
          BY <1>2, <2>3
    <2> QED BY <1>2, <2>1, <2>2, <2>3, <2>4, <2>5
  <1> QED BY <1>1, <1>2

\* What a source consists of.
LEMMA PathsAndDnas ==
    ASSUME NEW src \in Sources
    PROVE  /\ PathOf(src) \in Paths /\ src.dna \in Dnas
           /\ Length[src.dna] \in Nat \ {0}
           /\ src.scheme \in {"save", "file", "https"}
  BY DEF Paths, Dnas

\* What changes when a handler goes on or returns.
LEMMA GotoStep ==
    ASSUME TypeOK, NEW c \in Sessions, NEW label, Goto(c, label)
    PROVE  /\ pc' = [pc EXCEPT ![c] = label]
           /\ pc'[c] = label /\ \A d \in Sessions : d # c => pc'[d] = pc[d]
           /\ UNCHANGED <<req, offset, reply, issued>>
  BY DEF Goto, TypeOK

\* What an answer changes.
LEMMA ReturnStep ==
    ASSUME TypeOK, NEW c \in Sessions, NEW r, Return(c, r)
    PROVE  /\ pc' = [pc EXCEPT ![c] = "idle"]
           /\ pc'[c] = "idle" /\ \A d \in Sessions : d # c => pc'[d] = pc[d]
           /\ reply' = [reply EXCEPT ![c] = r]
           /\ UNCHANGED <<req, offset, issued>>
  BY DEF Return, TypeOK

\* A handler that returns leaves what the others rely on.
LEMMA ReturnType ==
    ASSUME TypeInv, NEW c \in Sessions, NEW r \in {"ok", "error", None}, Return(c, r),
           UNCHANGED <<files, unflushed>>
    PROVE  TypeInv'
  <1>1. /\ pc' = [pc EXCEPT ![c] = "idle"]
        /\ pc'[c] = "idle" /\ \A d \in Sessions : d # c => pc'[d] = pc[d]
        /\ reply' = [reply EXCEPT ![c] = r]
        /\ UNCHANGED <<req, offset, issued>>
      BY ReturnStep DEF TypeInv
  <1>2. TypeOK'
      BY <1>1 DEF TypeInv, TypeOK, Dna
  <1>3. HandlerInv'
      BY <1>1 DEF TypeInv, HandlerInv, Dna, File, Path
  <1>4. UnflushedInv'
      BY DEF TypeInv, UnflushedInv
  <1> QED BY <1>2, <1>3, <1>4 DEF TypeInv

\* A handler that opens a file, or creates it, goes on with it.
LEMMA GotoType ==
    ASSUME TypeInv, NEW c \in Sessions, pc[c] # "idle",
           NEW label \in {"save_length", "save_write", "fetch", "download_write"},
           Goto(c, label), offset[c] = 0,
           label \in Saving <=> req[c].scheme = "save",
           NEW file \in Seq(Dnas),
           files' = [files EXCEPT ![Path(c)] = file], UNCHANGED unflushed
    PROVE  TypeInv'
  <1>1. /\ pc' = [pc EXCEPT ![c] = label]
        /\ pc'[c] = label /\ \A d \in Sessions : d # c => pc'[d] = pc[d]
        /\ UNCHANGED <<req, offset, reply, issued>>
      BY GotoStep DEF TypeInv
  <1>2. req[c] \in Sources /\ Path(c) \in Paths /\ offset[c] < Length[Dna(c)]
      BY PathsAndDnas DEF TypeInv, HandlerInv, Path
  <1>3. /\ files' \in [Paths -> Seq(Dnas) \cup {None}]
        /\ \A p \in Paths : files[p] # None => files'[p] # None
        /\ files'[Path(c)] # None
      BY <1>2 DEF TypeInv, TypeOK
  <1>4. TypeOK'
      BY <1>1, <1>3 DEF TypeInv, TypeOK, Dna
  <1>5. HandlerInv'
    <2> SUFFICES ASSUME NEW d \in Sessions, pc'[d] # "idle"
                 PROVE  /\ req[d] \in Sources /\ offset[d] < Length[Dna(d)]
                        /\ pc'[d] \in Saving <=> req[d].scheme = "save"
                        /\ pc'[d] \in Opening \cup {"save_length", "fetch"} => offset[d] = 0
                        /\ pc'[d] \notin Opening => files'[Path(d)] # None
        BY <1>1 DEF HandlerInv, Dna, File, Path
    <2>1. CASE d = c
          BY <1>1, <1>2, <1>3, <2>1
    <2>2. CASE d # c
      <3>1. /\ req[d] \in Sources /\ offset[d] < Length[Dna(d)]
            /\ pc[d] \in Saving <=> req[d].scheme = "save"
            /\ pc[d] \in Opening \cup {"save_length", "fetch"} => offset[d] = 0
            /\ pc[d] \notin Opening => files[Path(d)] # None
            BY <1>1, <2>2 DEF TypeInv, HandlerInv, File
      <3>2. Path(d) \in Paths
            BY <3>1, PathsAndDnas DEF Path
      <3> QED BY <1>1, <1>3, <2>2, <3>1, <3>2
    <2> QED BY <2>1, <2>2
  <1>6. UnflushedInv'
      BY <1>3 DEF TypeInv, TypeOK, UnflushedInv
  <1> QED BY <1>4, <1>5, <1>6 DEF TypeInv

\* Writing a block keeps the types.
LEMMA WriteType ==
    ASSUME TypeInv, NEW c \in Sessions, WriteBlock(c)
    PROVE  TypeInv'
  <1>1. CASE Fails(c, "write")
      BY <1>1, ReturnType DEF Fails
  <1>2. CASE ~Fails(c, "write")
    <2>1. /\ pc[c] \in {"save_write", "download_write"}
          /\ offset' = [offset EXCEPT ![c] = offset[c] + 1]
          /\ IF Background(c)
             THEN /\ unflushed' = unflushed \cup {[path |-> Path(c), dna |-> Dna(c)]}
                  /\ UNCHANGED files
             ELSE /\ files' = [files EXCEPT ![Path(c)] = Written(File(c), offset[c], Dna(c))]
                  /\ UNCHANGED unflushed
          /\ IF LastBlock(c)
             THEN /\ pc' = [pc EXCEPT ![c] = "idle"]
                  /\ reply' = [reply EXCEPT ![c] = "ok"]
             ELSE UNCHANGED <<pc, reply>>
          /\ UNCHANGED <<req, issued>>
          BY <1>2 DEF WriteBlock
    <2>2. /\ req[c] \in Sources /\ Path(c) \in Paths /\ Dna(c) \in Dnas
          /\ offset[c] \in Nat /\ offset[c] < Length[Dna(c)] /\ Length[Dna(c)] \in Nat
          /\ File(c) \in Seq(Dnas)
      <3>1. req[c] \in Sources /\ offset[c] < Length[Dna(c)] /\ File(c) # None
            BY <2>1 DEF TypeInv, HandlerInv, Opening
      <3>2. Path(c) \in Paths /\ Dna(c) \in Dnas /\ Length[Dna(c)] \in Nat
            BY <3>1, PathsAndDnas DEF Path, Dna
      <3> QED BY <3>1, <3>2 DEF TypeInv, TypeOK, File
    <2>3. Written(File(c), offset[c], Dna(c)) \in Seq(Dnas)
          BY <2>2, WriteExtends
    <2>4. /\ files' \in [Paths -> Seq(Dnas) \cup {None}]
          /\ \A p \in Paths : files[p] # None => files'[p] # None
      <3> HIDE DEF Path
      <3> QED BY <2>1, <2>2, <2>3 DEF TypeInv, TypeOK
    <2>5. offset' \in [Sessions -> Nat] /\ offset'[c] = offset[c] + 1
          /\ \A d \in Sessions : d # c => offset'[d] = offset[d]
          BY <2>1, <2>2 DEF TypeInv, TypeOK
    <2>6. /\ \A d \in Sessions : d # c => pc'[d] = pc[d]
          /\ pc'[c] # "idle" => pc'[c] = pc[c] /\ offset[c] + 1 < Length[Dna(c)]
          BY <2>1, <2>2 DEF TypeInv, TypeOK, LastBlock
    <2>7. TypeOK'
      <3>1. unflushed' \subseteq [path : Paths, dna : Dnas]
            BY <2>1, <2>2 DEF TypeInv, TypeOK
      <3>2. ASSUME NEW d \in Sessions, req[d] # None
            PROVE  offset'[d] <= Length[req[d].dna]
        <4>1. CASE d = c
              BY <2>2, <2>5, <4>1 DEF Dna
        <4>2. CASE d # c
              BY <2>5, <3>2, <4>2 DEF TypeInv, TypeOK, Dna
        <4> QED BY <4>1, <4>2
      <3> QED BY <2>1, <2>4, <2>5, <3>1, <3>2 DEF TypeInv, TypeOK, Dna
    <2>8. HandlerInv'
      <3> SUFFICES ASSUME NEW d \in Sessions, pc'[d] # "idle"
                   PROVE  /\ req[d] \in Sources /\ offset'[d] < Length[Dna(d)]
                          /\ pc'[d] \in Saving <=> req[d].scheme = "save"
                          /\ pc'[d] \in Opening \cup {"save_length", "fetch"} => offset'[d] = 0
                          /\ pc'[d] \notin Opening => files'[Path(d)] # None
          BY <2>1 DEF HandlerInv, Dna, File, Path
      <3>1. /\ req[d] \in Sources /\ offset[d] < Length[Dna(d)]
            /\ pc[d] \in Saving <=> req[d].scheme = "save"
            /\ pc[d] \in Opening \cup {"save_length", "fetch"} => offset[d] = 0
            /\ pc[d] \notin Opening => files[Path(d)] # None
            /\ pc'[d] = pc[d]
            BY <2>6 DEF TypeInv, HandlerInv, File
      <3>2. files[Path(d)] # None => files'[Path(d)] # None
            BY <2>4, <3>1, PathsAndDnas DEF Path
      <3>3. CASE d = c
            BY <2>1, <2>5, <2>6, <3>1, <3>2, <3>3 DEF Opening
      <3>4. CASE d # c
            BY <2>5, <3>1, <3>2, <3>4
      <3> QED BY <3>3, <3>4
    <2>9. UnflushedInv'
      <3>1. \A w \in unflushed : files'[w.path] # None
            BY <2>4 DEF TypeInv, TypeOK, UnflushedInv
      <3>2. files'[Path(c)] # None
            BY <2>1, <2>2, <2>4 DEF TypeInv, HandlerInv, File, Opening
      <3> QED BY <2>1, <3>1, <3>2 DEF UnflushedInv
    <2> QED BY <2>7, <2>8, <2>9 DEF TypeInv
  <1> QED BY <1>1, <1>2

\* Every step of a handler keeps the types.
LEMMA HandlerType ==
    ASSUME TypeInv, NEW c \in Sessions, HandlerStep(c)
    PROVE  TypeInv'
  <1>1. ASSUME NEW fault, Fails(c, fault) PROVE TypeInv'
      BY <1>1, ReturnType DEF Fails
  <1>2. /\ \A d \in Sessions : pc[d] # "idle" => req[d] \in Sources /\ Path(d) \in Paths
        /\ files \in [Paths -> Seq(Dnas) \cup {None}]
      BY PathsAndDnas DEF TypeInv, TypeOK, HandlerInv, Path
  <1>3. CASE SaveOpen(c) /\ ~Fails(c, "create")
    <2>1. /\ pc[c] = "save_open" /\ files' = [files EXCEPT ![Path(c)] = Opened(File(c))]
          /\ Goto(c, "save_length") /\ UNCHANGED unflushed
          BY <1>3 DEF SaveOpen
    <2>2. Opened(File(c)) \in Seq(Dnas)
          BY <1>2, <2>1 DEF Opened, File
    <2>3. offset[c] = 0 /\ req[c].scheme = "save"
          BY <2>1 DEF TypeInv, HandlerInv, Opening, Saving
    <2> QED BY <2>1, <2>2, <2>3, GotoType DEF Saving
  <1>4. CASE SaveLength(c)
    <2>1. CASE Return(c, "ok")
          BY <1>4, <2>1, ReturnType DEF SaveLength
    <2>2. CASE Goto(c, "save_write")
      <3>1. offset[c] = 0 /\ req[c].scheme = "save" /\ File(c) \in Seq(Dnas)
            /\ files = [files EXCEPT ![Path(c)] = File(c)]
            BY <1>2, <1>4 DEF SaveLength, TypeInv, HandlerInv, Opening, Saving, File
      <3> QED BY <1>4, <2>2, <3>1, GotoType DEF SaveLength, Saving
    <2> QED BY <1>4, <2>1, <2>2 DEF SaveLength
  <1>5. CASE CreateNew(c) /\ ~Fails(c, "create")
    <2>1. CASE File(c) # None
          BY <1>5, <2>1, ReturnType DEF CreateNew
    <2>2. CASE File(c) = None
      <3>1. pc[c] = "create_new" /\ files' = [files EXCEPT ![Path(c)] = <<>>]
            /\ Goto(c, "fetch") /\ UNCHANGED unflushed
            BY <1>5, <2>2 DEF CreateNew
      <3>2. offset[c] = 0 /\ req[c].scheme # "save" /\ <<>> \in Seq(Dnas)
            BY <3>1 DEF TypeInv, HandlerInv, Opening, Saving
      <3> QED BY <3>1, <3>2, GotoType DEF Saving
    <2> QED BY <2>1, <2>2
  <1>6. CASE Fetch(c) /\ ~Fails(c, "fetch")
    <2>1. pc[c] = "fetch" /\ Goto(c, "download_write") /\ UNCHANGED <<files, unflushed>>
          BY <1>6 DEF Fetch
    <2>2. offset[c] = 0 /\ req[c].scheme # "save" /\ File(c) \in Seq(Dnas)
          /\ files = [files EXCEPT ![Path(c)] = File(c)]
          BY <1>2, <2>1 DEF TypeInv, HandlerInv, Opening, Saving, File
    <2> QED BY <2>1, <2>2, GotoType DEF Saving
  <1> QED BY <1>1, <1>3, <1>4, <1>5, <1>6, WriteType DEF HandlerStep

\* A request that is received has the right type.
LEMMA ReceiveType ==
    ASSUME TypeInv, NEW c \in Sessions, NEW src \in Sources, Receive(c, src)
    PROVE  TypeInv'
  <1>1. /\ pc' = [pc EXCEPT ![c] = IF src.scheme = "save" THEN "save_open" ELSE "create_new"]
        /\ req' = [req EXCEPT ![c] = src] /\ offset' = [offset EXCEPT ![c] = 0]
        /\ reply' = [reply EXCEPT ![c] = None] /\ issued' = issued + 1 /\ issued < MaxRequests
        /\ UNCHANGED <<files, unflushed>>
      BY DEF Receive
  <1>2. /\ pc'[c] = IF src.scheme = "save" THEN "save_open" ELSE "create_new"
        /\ req'[c] = src /\ offset'[c] = 0
        /\ \A d \in Sessions : d # c => pc'[d] = pc[d] /\ req'[d] = req[d] /\ offset'[d] = offset[d]
      BY <1>1 DEF TypeInv, TypeOK
  <1>3. Length[src.dna] \in Nat \ {0}
      BY PathsAndDnas
  <1>4. TypeOK'
    <2>1. ASSUME NEW d \in Sessions, req'[d] # None
          PROVE  offset'[d] <= Length[req'[d].dna]
          BY <1>2, <1>3, <2>1 DEF TypeInv, TypeOK, Dna
    <2> QED BY <1>1, <2>1 DEF TypeInv, TypeOK, Dna
  <1>5. HandlerInv'
      BY <1>1, <1>2, <1>3 DEF TypeInv, HandlerInv, Dna, File, Path, Opening, Saving
  <1>6. UnflushedInv'
      BY <1>1 DEF TypeInv, UnflushedInv
  <1> QED BY <1>4, <1>5, <1>6 DEF TypeInv

\* A flush keeps the types.
LEMMA FlushType == TypeInv /\ Flush => TypeInv'
  <1> SUFFICES ASSUME TypeInv, NEW w \in unflushed, UNCHANGED sessions,
                      unflushed' = unflushed \ {w},
                      \/ files' = [files EXCEPT ![w.path] = Append(files[w.path], w.dna)]
                      \/ UNCHANGED files
               PROVE  TypeInv'
      BY DEF Flush
  <1>1. w.path \in Paths /\ w.dna \in Dnas /\ files[w.path] \in Seq(Dnas)
        /\ files \in [Paths -> Seq(Dnas) \cup {None}]
      BY DEF TypeInv, TypeOK, UnflushedInv
  <1>2. Append(files[w.path], w.dna) \in Seq(Dnas)
      BY <1>1
  <1>3. files' \in [Paths -> Seq(Dnas) \cup {None}]
        /\ \A p \in Paths : files[p] # None => files'[p] # None
      BY <1>1, <1>2
  <1>4. TypeOK'
      BY <1>3 DEF TypeInv, TypeOK, sessions, Dna
  <1>5. HandlerInv'
      BY <1>3, PathsAndDnas DEF TypeInv, HandlerInv, sessions, Dna, File, Path
  <1>6. UnflushedInv'
      BY <1>3 DEF TypeInv, TypeOK, UnflushedInv
  <1> QED BY <1>4, <1>5, <1>6 DEF TypeInv

\* Every step keeps the types.
LEMMA TypeStep == TypeInv /\ [Next]_vars => TypeInv'
  <1> SUFFICES ASSUME TypeInv, [Next]_vars PROVE TypeInv'
      OBVIOUS
  <1>1. CASE UNCHANGED vars
      BY <1>1
         DEF vars, sessions, TypeInv, TypeOK, HandlerInv, UnflushedInv, Dna, File,
             Path
  <1>2. CASE Restart
      BY <1>2 DEF Restart, TypeInv, TypeOK, HandlerInv, UnflushedInv, Dna
  <1> QED BY <1>1, <1>2, HandlerType, ReceiveType, FlushType DEF Next, Finished

\* The types hold in every reachable state.
LEMMA TypeInductive == Spec => []TypeInv
  <1>1. Init => TypeInv
      BY DEF Init, TypeInv, TypeOK, HandlerInv, UnflushedInv
  <1> QED BY <1>1, TypeStep, PTL DEF Spec

\* Every variable keeps its type, for any sessions, sources and failures: nobody writes
\* beyond the length of a DNA, or to a file that is not there.
THEOREM TypeCorrect == Spec => []TypeOK
  <1>1. TypeInv => TypeOK
      BY DEF TypeInv
  <1> QED BY <1>1, TypeInductive, PTL

-----------------------------------------------------------------------------
\* From here on, sources that share a path have the same DNA.  The paths of downloads drop
\* the host and the query of a URL, so that this is not so of all sources.
DistinctPaths == \A s, t \in Sources : PathOf(s) = PathOf(t) => s.dna = t.dna

\* A file of blocks of one DNA, from its beginning.
Holds(file, dna) == Len(file) <= Length[dna] /\ \A i \in 1 .. Len(file) : file[i] = dna

HoldInv == \A src \in Sources : files[PathOf(src)] # None => Holds(files[PathOf(src)], src.dna)

\* A save never writes beyond the end of the file, which other saves may have extended.
SaveInv == \A c \in Sessions : pc[c] = "save_write" => offset[c] <= Len(File(c))

\* A file is downloaded by one session, which has written all that is in it; its last block
\* may be written after that session was answered, and nobody else writes meanwhile.
DownloadInv ==
    /\ \A c \in Sessions : pc[c] \in Downloading =>
        /\ Len(File(c)) = offset[c]
        /\ \A d \in Sessions : pc[d] \in Downloading /\ Path(d) = Path(c) => d = c
        /\ \A w \in unflushed : w.path # Path(c)
    /\ \A w \in unflushed :
        /\ \E src \in Sources : w = [path |-> PathOf(src), dna |-> src.dna] /\ src.scheme # "save"
        /\ Len(files[w.path]) + 1 = Length[w.dna]

StoreInv == HoldInv /\ SaveInv /\ DownloadInv

\* No file is removed or gets shorter.
FilesGrow == \A p \in Paths : files[p] # None => files'[p] # None /\ Len(files[p]) <= Len(files'[p])

\* A file that holds its DNA is a prefix of it, and all of it when it is as long.
LEMMA PrefixHolds ==
    ASSUME NEW file \in Seq(Dnas), NEW dna \in Dnas
    PROVE  /\ Holds(file, dna) => IsPrefix(file, Content(dna))
           /\ Holds(file, dna) /\ Len(file) = Length[dna] => file = Content(dna)
           /\ file = Content(dna) => Len(file) = Length[dna]
  <1>1. /\ Content(dna) \in Seq(Dnas) /\ Len(Content(dna)) = Length[dna]
        /\ \A i \in 1 .. Length[dna] : Content(dna)[i] = dna
    <2>1. Length[dna] \in Nat
          OBVIOUS
    <2> QED BY <2>1, IsASeq DEF Content
  <1>2. Len(file) \in Nat /\ file \in [1 .. Len(file) -> Dnas]
      BY LenProperties
  <1>3. ASSUME Holds(file, dna) PROVE IsPrefix(file, Content(dna))
    <2> DEFINE l == Len(file)
    <2>1. l <= Length[dna] /\ Length[dna] \in Nat /\ \A i \in 1 .. l : file[i] = dna
          BY <1>3 DEF Holds
    <2>2. SubSeq(file, 1, l) = [i \in 1 .. l |-> file[i]]
          BY <1>2
    <2>3. SubSeq(Content(dna), 1, l) = [i \in 1 .. l |-> Content(dna)[i]]
          BY <1>1, <1>2, <2>1
    <2>4. \A i \in 1 .. l : file[i] = Content(dna)[i]
          BY <1>1, <1>2, <2>1
    <2> QED BY <1>1, <2>1, <2>2, <2>3, <2>4 DEF IsPrefix
  <1>4. ASSUME Holds(file, dna), Len(file) = Length[dna] PROVE file = Content(dna)
    <2>1. \A i \in 1 .. Len(file) : file[i] = Content(dna)[i]
          BY <1>1, <1>4 DEF Holds
    <2> QED BY <1>1, <1>4, <2>1, SeqEqual
  <1> QED BY <1>1, <1>3, <1>4

\* Saved DNAs and downloads have different paths.
LEMMA SchemeOfPath == \A s, t \in Sources : PathOf(s) = PathOf(t) => s.scheme = t.scheme
  BY DEF PathOf

\* A file that only grows and holds its DNA.
LEMMA GrowStep ==
    ASSUME DistinctPaths, TypeInv, HoldInv, NEW src \in Sources, NEW new \in Seq(Dnas),
           Holds(new, src.dna), files'[PathOf(src)] = new,
           \A p \in Paths : p # PathOf(src) => files'[p] = files[p],
           files[PathOf(src)] # None => Len(files[PathOf(src)]) <= Len(new)
    PROVE  HoldInv' /\ FilesGrow
  <1>1. /\ PathOf(src) \in Paths /\ files \in [Paths -> Seq(Dnas) \cup {None}] /\ new # None
        /\ \A p \in Paths : files[p] # None => Len(files[p]) \in Nat
      BY PathsAndDnas DEF TypeInv, TypeOK
  <1>2. HoldInv'
      BY <1>1, PathsAndDnas DEF HoldInv, DistinctPaths
  <1>3. FilesGrow
    <2> SUFFICES ASSUME NEW p \in Paths, files[p] # None
                 PROVE  files'[p] # None /\ Len(files[p]) <= Len(files'[p])
        BY DEF FilesGrow
    <2>1. CASE p = PathOf(src)
          BY <1>1, <2>1
    <2>2. CASE p # PathOf(src)
          BY <1>1, <2>2
    <2> QED BY <2>1, <2>2
  <1> QED BY <1>2, <1>3

\* How a file is replaced.
LEMMA FilesStep ==
    ASSUME TypeInv, NEW path \in Paths, NEW new, files' = [files EXCEPT ![path] = new]
    PROVE  files'[path] = new /\ \A p \in Paths : p # path => files'[p] = files[p]
  BY DEF TypeInv, TypeOK

\* A handler that is under way has a source, and so a path and a DNA.
LEMMA HandlerHas ==
    ASSUME TypeInv, NEW c \in Sessions, pc[c] # "idle"
    PROVE  /\ req[c] \in Sources /\ Path(c) \in Paths /\ Dna(c) \in Dnas
           /\ Path(c) = PathOf(req[c]) /\ Dna(c) = req[c].dna
           /\ offset[c] \in Nat /\ offset[c] < Length[Dna(c)] /\ Length[Dna(c)] \in Nat
           /\ pc[c] \in Saving <=> req[c].scheme = "save"
           /\ pc[c] \in Opening \cup {"save_length", "fetch"} => offset[c] = 0
           /\ pc[c] \notin Opening => files[Path(c)] # None /\ files[Path(c)] \in Seq(Dnas)
  <1>1. /\ req[c] \in Sources /\ offset[c] < Length[Dna(c)]
        /\ pc[c] \in Saving <=> req[c].scheme = "save"
        /\ pc[c] \in Opening \cup {"save_length", "fetch"} => offset[c] = 0
        /\ pc[c] \notin Opening => files[Path(c)] # None
      BY DEF TypeInv, HandlerInv, File
  <1>2. Path(c) \in Paths /\ Dna(c) \in Dnas /\ Length[Dna(c)] \in Nat
      BY <1>1, PathsAndDnas DEF Path, Dna
  <1> QED BY <1>1, <1>2 DEF TypeInv, TypeOK, Path, Dna

\* What the steps of one handler leave of the others.
OthersSame(c) == \A d \in Sessions : d # c => pc'[d] = pc[d] /\ req'[d] = req[d] /\ offset'[d] = offset[d]

\* A step that writes nothing, of a handler that goes on with a download or leaves it, or
\* is about to save.
LEMMA QuietStore ==
    ASSUME TypeInv, StoreInv, NEW c \in Sessions, OthersSame(c), UNCHANGED <<files, unflushed>>,
           pc'[c] \in Downloading => pc[c] \in Downloading /\ req'[c] = req[c] /\ offset'[c] = offset[c],
           pc'[c] = "save_write" => pc[c] = "save_length" /\ req'[c] = req[c] /\ offset'[c] = offset[c]
    PROVE  StoreInv' /\ FilesGrow
  <1>1. HoldInv'
      BY DEF StoreInv, HoldInv
  <1>2. FilesGrow
      BY LenProperties DEF FilesGrow, TypeInv, TypeOK
  <1>3. SaveInv'
    <2> SUFFICES ASSUME NEW d \in Sessions, pc'[d] = "save_write" PROVE offset'[d] <= Len(files[PathOf(req'[d])])
        BY DEF SaveInv, File, Path
    <2>1. CASE d = c
      <3>1. pc[c] = "save_length" /\ req'[c] = req[c] /\ offset'[c] = 0 /\ File(c) \in Seq(Dnas)
            BY <2>1, HandlerHas DEF File, Opening
      <3> QED BY <2>1, <3>1, LenProperties DEF File, Path
    <2>2. CASE d # c
          BY <2>2 DEF OthersSame, StoreInv, SaveInv, File, Path
    <2> QED BY <2>1, <2>2
  <1>4. \A d \in Sessions : pc'[d] \in Downloading =>
              pc[d] \in Downloading /\ req'[d] = req[d] /\ offset'[d] = offset[d]
      BY DEF OthersSame
  <1>5. DownloadInv'
      BY <1>4 DEF StoreInv, DownloadInv, File, Path
  <1> QED BY <1>1, <1>2, <1>3, <1>5 DEF StoreInv

\* A save that creates its file or writes a block of it.
LEMMA SaveStore ==
    ASSUME DistinctPaths, TypeInv, StoreInv, NEW c \in Sessions, OthersSame(c),
           pc[c] \in Saving, req'[c] = req[c], pc'[c] \notin Downloading,
           NEW new \in Seq(Dnas), Holds(new, Dna(c)),
           files' = [files EXCEPT ![Path(c)] = new],
           File(c) # None => Len(File(c)) <= Len(new),
           UNCHANGED unflushed,
           pc'[c] = "save_write" => offset'[c] <= Len(new)
    PROVE  StoreInv' /\ FilesGrow
  <1>1. /\ req[c] \in Sources /\ Path(c) = PathOf(req[c]) /\ req[c].scheme = "save"
        /\ Dna(c) = req[c].dna /\ Path(c) \in Paths
      BY HandlerHas DEF Saving
  <1>2. /\ HoldInv' /\ FilesGrow /\ files'[Path(c)] = new
        /\ \A p \in Paths : p # Path(c) => files'[p] = files[p]
    <2>1. HoldInv /\ Holds(new, req[c].dna)
          BY <1>1 DEF StoreInv
    <2>2. files'[Path(c)] = new /\ \A p \in Paths : p # Path(c) => files'[p] = files[p]
          BY <1>1, FilesStep
    <2>3. files[Path(c)] # None => Len(files[Path(c)]) <= Len(new)
          BY DEF File
    <2> QED BY <1>1, <2>1, <2>2, <2>3, GrowStep
  <1>3. SaveInv'
    <2> SUFFICES ASSUME NEW d \in Sessions, pc'[d] = "save_write" PROVE offset'[d] <= Len(files'[PathOf(req'[d])])
        BY DEF SaveInv, File, Path
    <2>1. CASE d = c
          BY <1>1, <1>2, <2>1
    <2>2. CASE d # c
      <3>1. pc[d] = "save_write" /\ req'[d] = req[d] /\ offset'[d] = offset[d]
            BY <2>2 DEF OthersSame
      <3>2. /\ Path(d) \in Paths /\ Path(d) = PathOf(req[d]) /\ files[Path(d)] # None
            /\ offset[d] <= Len(files[Path(d)]) /\ offset[d] \in Nat /\ files[Path(d)] \in Seq(Dnas)
            BY <3>1, HandlerHas DEF StoreInv, SaveInv, File, Opening
      <3>3. Len(files[Path(d)]) <= Len(files'[Path(d)]) /\ Len(files[Path(d)]) \in Nat
            /\ Len(files'[Path(d)]) \in Nat
            BY <1>1, <1>2, <3>2, LenProperties DEF FilesGrow
      <3> QED BY <3>1, <3>2, <3>3
    <2> QED BY <2>1, <2>2
  <1>4. \A d \in Sessions : pc'[d] \in Downloading =>
              /\ pc[d] \in Downloading /\ req'[d] = req[d] /\ offset'[d] = offset[d]
              /\ files'[Path(d)] = files[Path(d)]
    <2> SUFFICES ASSUME NEW d \in Sessions, pc'[d] \in Downloading
                 PROVE  /\ pc[d] \in Downloading /\ req'[d] = req[d] /\ offset'[d] = offset[d]
                        /\ files'[Path(d)] = files[Path(d)]
        OBVIOUS
    <2>1. pc[d] \in Downloading /\ req'[d] = req[d] /\ offset'[d] = offset[d]
          BY DEF OthersSame
    <2>2. req[d] \in Sources /\ Path(d) = PathOf(req[d]) /\ req[d].scheme # "save" /\ Path(d) \in Paths
          BY <2>1, HandlerHas DEF Saving, Downloading
    <2>3. Path(d) # Path(c)
          BY <1>1, <2>2, SchemeOfPath
    <2> QED BY <1>2, <2>1, <2>2, <2>3
  <1>5. \A w \in unflushed : files'[w.path] = files[w.path]
    <2> SUFFICES ASSUME NEW w \in unflushed PROVE files'[w.path] = files[w.path]
        OBVIOUS
    <2>1. PICK src \in Sources : w = [path |-> PathOf(src), dna |-> src.dna] /\ src.scheme # "save"
          BY DEF StoreInv, DownloadInv
    <2>2. w.path = PathOf(src) /\ w.path \in Paths /\ w.path # Path(c)
          BY <1>1, <2>1, SchemeOfPath, PathsAndDnas
    <2> QED BY <1>2, <2>2
  <1>6. DownloadInv'
    <2>1. \A d \in Sessions : pc'[d] \in Downloading => Path(d)' = Path(d) /\ File(d)' = File(d)
          BY <1>4 DEF File, Path
    <2>2. ASSUME NEW d \in Sessions, pc'[d] \in Downloading
          PROVE  /\ Len(File(d)') = offset'[d]
                 /\ \A e \in Sessions : pc'[e] \in Downloading /\ Path(e)' = Path(d)' => e = d
                 /\ \A w \in unflushed : w.path # Path(d)'
          BY <1>4, <2>1, <2>2 DEF StoreInv, DownloadInv
    <2>3. ASSUME NEW w \in unflushed
          PROVE  /\ \E src \in Sources : w = [path |-> PathOf(src), dna |-> src.dna] /\ src.scheme # "save"
                 /\ Len(files'[w.path]) + 1 = Length[w.dna]
          BY <1>5 DEF StoreInv, DownloadInv
    <2> QED BY <2>2, <2>3 DEF DownloadInv
  <1> QED BY <1>2, <1>3, <1>6 DEF StoreInv

\* A download that creates its file.
LEMMA CreateStore ==
    ASSUME DistinctPaths, TypeInv, StoreInv, NEW c \in Sessions, OthersSame(c),
           pc[c] = "create_new", File(c) = None, req'[c] = req[c], offset'[c] = offset[c],
           pc'[c] = "fetch", files' = [files EXCEPT ![Path(c)] = <<>>], UNCHANGED unflushed
    PROVE  StoreInv' /\ FilesGrow
  <1>1. /\ req[c] \in Sources /\ Path(c) = PathOf(req[c]) /\ offset[c] = 0
        /\ Dna(c) = req[c].dna /\ Path(c) \in Paths /\ Length[Dna(c)] \in Nat
      BY HandlerHas DEF Opening
  <1>2. /\ HoldInv' /\ FilesGrow /\ files'[Path(c)] = <<>>
        /\ \A p \in Paths : p # Path(c) => files'[p] = files[p]
    <2>1. Holds(<<>>, req[c].dna) /\ <<>> \in Seq(Dnas) /\ HoldInv
          BY <1>1 DEF Holds, StoreInv
    <2>2. files'[Path(c)] = <<>> /\ \A p \in Paths : p # Path(c) => files'[p] = files[p]
          BY <1>1, FilesStep
    <2>3. files[Path(c)] = None
          BY DEF File
    <2> QED BY <1>1, <2>1, <2>2, <2>3, GrowStep
  <1>3. ASSUME NEW d \in Sessions, d # c, pc'[d] # "idle", pc'[d] \notin Opening
        PROVE  /\ Path(d) # Path(c) /\ files'[Path(d)] = files[Path(d)]
               /\ pc'[d] = pc[d] /\ req'[d] = req[d] /\ offset'[d] = offset[d]
    <2>1. pc'[d] = pc[d] /\ req'[d] = req[d] /\ offset'[d] = offset[d]
          BY <1>3 DEF OthersSame
    <2>2. files[Path(d)] # None /\ Path(d) \in Paths
          BY <1>3, <2>1, HandlerHas
    <2> QED BY <1>2, <2>1, <2>2 DEF File
  <1>4. SaveInv'
      BY <1>3 DEF StoreInv, SaveInv, File, Path, Opening
  <1>5. ASSUME NEW w \in unflushed
        PROVE  w.path # Path(c) /\ files'[w.path] = files[w.path]
    <2>1. files[w.path] # None /\ w.path \in Paths
          BY DEF TypeInv, TypeOK, UnflushedInv
    <2> QED BY <1>2, <2>1 DEF File
  <1>6. ASSUME NEW d \in Sessions, pc'[d] \in Downloading
        PROVE  /\ Len(files'[Path(d)]) = offset'[d]
               /\ \A e \in Sessions : pc'[e] \in Downloading /\ Path(e) = Path(d) => e = d
               /\ \A w \in unflushed' : w.path # Path(d)
    <2>1. \A e \in Sessions : e # c /\ pc'[e] \in Downloading => pc[e] \in Downloading /\ Path(e) # Path(c)
          BY <1>3 DEF Downloading, Opening
    <2>2. CASE d = c
      <3>1. files'[Path(c)] = <<>> /\ offset'[c] = 0 /\ Len(<<>>) = 0
            BY <1>1, <1>2
      <3> QED BY <1>5, <2>1, <2>2, <3>1
    <2>3. CASE d # c
      <3>1. /\ pc[d] \in Downloading /\ files'[Path(d)] = files[Path(d)] /\ offset'[d] = offset[d]
            /\ Path(d) # Path(c)
            BY <1>3, <1>6, <2>3 DEF Downloading, Opening
      <3>2. /\ Len(files[Path(d)]) = offset[d] /\ \A w \in unflushed : w.path # Path(d)
            /\ \A e \in Sessions : pc[e] \in Downloading /\ Path(e) = Path(d) => e = d
            BY <3>1 DEF StoreInv, DownloadInv, File
      <3>3. ASSUME NEW e \in Sessions, pc'[e] \in Downloading, Path(e) = Path(d)
            PROVE  e = d
        <4>1. e # c
              BY <3>1, <3>3
        <4> QED BY <2>1, <3>2, <3>3, <4>1
      <3> QED BY <3>1, <3>2, <3>3
    <2> QED BY <2>2, <2>3
  <1>7. DownloadInv'
    <2>1. \A d \in Sessions : Path(d)' = Path(d)
          BY DEF OthersSame, Path
    <2>2. \A d \in Sessions : File(d)' = files'[Path(d)]
          BY <2>1 DEF File
    <2> QED BY <1>5, <1>6, <2>1, <2>2 DEF StoreInv, DownloadInv
  <1> QED BY <1>2, <1>4, <1>7 DEF StoreInv

\* A block of a download, written at the end of its file, or left to be written.
LEMMA DownloadStore ==
    ASSUME DistinctPaths, TypeInv, StoreInv, NEW c \in Sessions, OthersSame(c),
           pc[c] = "download_write", req'[c] = req[c], offset'[c] = offset[c] + 1,
           pc'[c] = IF LastBlock(c) THEN "idle" ELSE "download_write",
           \/ /\ files' = [files EXCEPT ![Path(c)] = Written(File(c), offset[c], Dna(c))]
              /\ UNCHANGED unflushed
           \/ /\ LastBlock(c) /\ UNCHANGED files
              /\ unflushed' = unflushed \cup {[path |-> Path(c), dna |-> Dna(c)]}
    PROVE  StoreInv' /\ FilesGrow
  <1>1. /\ req[c] \in Sources /\ Path(c) = PathOf(req[c]) /\ req[c].scheme # "save"
        /\ Dna(c) = req[c].dna /\ Dna(c) \in Dnas /\ Path(c) \in Paths /\ Length[Dna(c)] \in Nat
        /\ offset[c] \in Nat /\ offset[c] < Length[Dna(c)]
        /\ File(c) \in Seq(Dnas) /\ File(c) # None
      BY HandlerHas DEF Opening, Saving, File
  <1>2. /\ Len(File(c)) = offset[c] /\ Holds(File(c), Dna(c))
        /\ \A d \in Sessions : pc[d] \in Downloading /\ Path(d) = Path(c) => d = c
        /\ \A w \in unflushed : w.path # Path(c)
      BY <1>1 DEF StoreInv, DownloadInv, HoldInv, Downloading, File
  <1> DEFINE new == Written(File(c), offset[c], Dna(c))
  <1>3. new \in Seq(Dnas) /\ Len(new) = offset[c] + 1 /\ Holds(new, Dna(c))
    <2>1. /\ new \in Seq(Dnas) /\ Len(new) = offset[c] + 1
          /\ \A j \in 1 .. Len(new) :
                new[j] = Dna(c) \/ (j <= Len(File(c)) /\ new[j] = File(c)[j])
      <3>1. offset[c] <= Len(File(c)) /\ ~(offset[c] < Len(File(c)))
            BY <1>1, <1>2
      <3> QED BY <1>1, <3>1, WriteExtends
    <2> HIDE DEF new
    <2>2. \A j \in 1 .. Len(new) : new[j] = Dna(c)
          BY <1>1, <1>2, <2>1 DEF Holds
    <2> QED BY <1>1, <2>1, <2>2 DEF Holds
  <1> HIDE DEF new
  <1>4. \A d \in Sessions : Path(d)' = Path(d) /\ File(d)' = files'[Path(d)]
      BY DEF OthersSame, Path, File
  <1>5. /\ HoldInv' /\ FilesGrow
        /\ \A p \in Paths : p # Path(c) => files'[p] = files[p]
        /\ pc'[c] # "idle" => files'[Path(c)] = new
    <2>1. CASE UNCHANGED files /\ LastBlock(c)
          BY <2>1, LenProperties DEF StoreInv, HoldInv, FilesGrow, TypeInv, TypeOK
    <2>2. CASE files' = [files EXCEPT ![Path(c)] = new]
      <3>1. HoldInv /\ Holds(new, req[c].dna) /\ Len(files[Path(c)]) <= Len(new)
            BY <1>1, <1>2, <1>3 DEF StoreInv, File
      <3>2. files'[Path(c)] = new /\ \A p \in Paths : p # Path(c) => files'[p] = files[p]
            BY <1>1, <2>2, FilesStep
      <3> QED BY <1>1, <1>3, <3>1, <3>2, GrowStep
    <2> QED BY <2>1, <2>2 DEF new
  <1>6. ASSUME NEW d \in Sessions, d # c, pc'[d] \in Downloading \cup {"save_write"}
        PROVE  /\ Path(d) # Path(c) /\ Path(d) \in Paths /\ files'[Path(d)] = files[Path(d)]
               /\ pc'[d] = pc[d] /\ req'[d] = req[d] /\ offset'[d] = offset[d]
    <2>1. pc'[d] = pc[d] /\ req'[d] = req[d] /\ offset'[d] = offset[d]
          BY <1>6 DEF OthersSame
    <2>2. req[d] \in Sources /\ Path(d) = PathOf(req[d]) /\ Path(d) \in Paths
          /\ (pc[d] = "save_write" => req[d].scheme = "save")
          BY <1>6, <2>1, HandlerHas DEF Downloading, Saving
    <2>3. Path(d) # Path(c)
          BY <1>1, <1>2, <1>6, <2>1, <2>2, SchemeOfPath
    <2> QED BY <1>5, <2>1, <2>2, <2>3
  <1>7. SaveInv'
    <2>1. pc'[c] # "save_write"
          OBVIOUS
    <2> QED BY <1>4, <1>6, <2>1 DEF StoreInv, SaveInv, File
  <1>8. ASSUME NEW w \in unflushed'
        PROVE  /\ \E src \in Sources : w = [path |-> PathOf(src), dna |-> src.dna] /\ src.scheme # "save"
               /\ Len(files'[w.path]) + 1 = Length[w.dna]
               /\ w.path = Path(c) => pc'[c] = "idle"
               /\ w.path # Path(c) => w \in unflushed
    <2>1. CASE w \in unflushed
      <3>1. w.path \in Paths /\ w.path # Path(c)
            BY <1>2, <2>1 DEF TypeInv, TypeOK
      <3> QED BY <1>5, <2>1, <3>1 DEF StoreInv, DownloadInv
    <2>2. CASE w \notin unflushed
      <3>1. w = [path |-> Path(c), dna |-> Dna(c)] /\ LastBlock(c) /\ files' = files
            BY <2>2
      <3> QED BY <1>1, <1>2, <3>1 DEF LastBlock, File
    <2> QED BY <2>1, <2>2
  <1>9. ASSUME NEW d \in Sessions, pc'[d] \in Downloading
        PROVE  /\ Len(files'[Path(d)]) = offset'[d]
               /\ \A e \in Sessions : pc'[e] \in Downloading /\ Path(e) = Path(d) => e = d
               /\ \A w \in unflushed' : w.path # Path(d)
    <2>1. CASE d = c
      <3>1. pc'[c] # "idle" /\ pc[c] \in Downloading
            BY <1>9, <2>1 DEF Downloading
      <3> QED BY <1>3, <1>5, <1>6, <1>8, <2>1, <3>1
    <2>2. CASE d # c
      <3>1. /\ pc[d] \in Downloading /\ files'[Path(d)] = files[Path(d)] /\ offset'[d] = offset[d]
            /\ Path(d) # Path(c)
            BY <1>6, <1>9, <2>2
      <3>2. \A e \in Sessions : pc'[e] \in Downloading /\ Path(e) = Path(d) => pc[e] \in Downloading
            BY <1>6, <3>1
      <3> QED BY <1>8, <3>1, <3>2 DEF StoreInv, DownloadInv, File
    <2> QED BY <2>1, <2>2
  <1>10. DownloadInv'
      BY <1>4, <1>8, <1>9 DEF DownloadInv
  <1> QED BY <1>5, <1>7, <1>10 DEF StoreInv

\* The block that was left is written at the end of its file.
LEMMA FlushStore == DistinctPaths /\ TypeInv /\ StoreInv /\ Flush => StoreInv' /\ FilesGrow
  <1> SUFFICES ASSUME DistinctPaths, TypeInv, StoreInv, NEW w \in unflushed, UNCHANGED sessions,
                      unflushed' = unflushed \ {w},
                      \/ files' = [files EXCEPT ![w.path] = Append(files[w.path], w.dna)]
                      \/ UNCHANGED files
               PROVE  StoreInv' /\ FilesGrow
      BY DEF Flush
  <1>1. PICK src \in Sources : w = [path |-> PathOf(src), dna |-> src.dna] /\ src.scheme # "save"
      BY DEF StoreInv, DownloadInv
  <1>2. /\ w.path = PathOf(src) /\ w.dna = src.dna /\ w.path \in Paths /\ w.dna \in Dnas
        /\ files[w.path] # None /\ files[w.path] \in Seq(Dnas) /\ Len(files[w.path]) \in Nat
        /\ Len(files[w.path]) + 1 = Length[w.dna] /\ Holds(files[w.path], w.dna)
    <2>1. w.path = PathOf(src) /\ w.dna = src.dna /\ w.path \in Paths /\ w.dna \in Dnas
          BY <1>1, PathsAndDnas
    <2>2. files[w.path] # None /\ files[w.path] \in Seq(Dnas)
          BY <2>1 DEF TypeInv, TypeOK, UnflushedInv
    <2> QED BY <2>1, <2>2, LenProperties DEF StoreInv, DownloadInv, HoldInv
  <1> DEFINE new == Append(files[w.path], w.dna)
  <1>3. new \in Seq(Dnas) /\ Len(new) = Len(files[w.path]) + 1 /\ Holds(new, w.dna)
    <2>1. /\ new \in Seq(Dnas) /\ Len(new) = Len(files[w.path]) + 1
          /\ \A j \in 1 .. Len(files[w.path]) : new[j] = files[w.path][j]
          /\ new[Len(files[w.path]) + 1] = w.dna
          BY <1>2, AppendProperties
    <2> HIDE DEF new
    <2>2. \A j \in 1 .. Len(new) : j \in 1 .. Len(files[w.path]) \/ j = Len(files[w.path]) + 1
          BY <1>2, <2>1
    <2>3. \A j \in 1 .. Len(new) : new[j] = w.dna
          BY <1>2, <2>1, <2>2 DEF Holds
    <2> QED BY <1>2, <2>1, <2>3 DEF Holds
  <1> HIDE DEF new
  <1>4. /\ HoldInv' /\ FilesGrow
        /\ \A p \in Paths : p # w.path => files'[p] = files[p]
    <2>1. CASE UNCHANGED files
          BY <2>1, LenProperties DEF StoreInv, HoldInv, FilesGrow, TypeInv, TypeOK
    <2>2. CASE files' = [files EXCEPT ![w.path] = new]
      <3>1. HoldInv /\ Holds(new, src.dna) /\ Len(files[w.path]) <= Len(new)
            BY <1>2, <1>3 DEF StoreInv
      <3>2. files'[w.path] = new /\ \A p \in Paths : p # w.path => files'[p] = files[p]
            BY <1>2, <2>2, FilesStep
      <3> QED BY <1>2, <1>3, <3>1, <3>2, GrowStep
    <2> QED BY <2>1, <2>2 DEF new
  <1>5. \A v \in unflushed' : v.path # w.path /\ files'[v.path] = files[v.path]
    <2> SUFFICES ASSUME NEW v \in unflushed, v # w PROVE v.path # w.path /\ files'[v.path] = files[v.path]
        OBVIOUS
    <2>1. PICK s \in Sources : v = [path |-> PathOf(s), dna |-> s.dna]
          BY DEF StoreInv, DownloadInv
    <2>2. v.path # w.path
          BY <1>1, <2>1 DEF DistinctPaths
    <2>3. v.path \in Paths
          BY <2>1, PathsAndDnas
    <2> QED BY <1>4, <2>2, <2>3
  <1>6. \A d \in Sessions : pc[d] \in Downloading \cup {"save_write"} =>
              Path(d) # w.path /\ files'[Path(d)] = files[Path(d)]
    <2> SUFFICES ASSUME NEW d \in Sessions, pc[d] \in Downloading \cup {"save_write"}
                 PROVE  Path(d) # w.path /\ files'[Path(d)] = files[Path(d)]
        OBVIOUS
    <2>1. req[d] \in Sources /\ Path(d) = PathOf(req[d]) /\ Path(d) \in Paths
          /\ (pc[d] = "save_write" => req[d].scheme = "save")
          BY HandlerHas DEF Downloading, Saving
    <2>2. Path(d) # w.path
          BY <1>1, <1>2, <2>1, SchemeOfPath DEF StoreInv, DownloadInv
    <2> QED BY <1>4, <2>1, <2>2
  <1>7. SaveInv' /\ DownloadInv'
      BY <1>5, <1>6 DEF StoreInv, SaveInv, DownloadInv, sessions, File, Path
  <1> QED BY <1>4, <1>7 DEF StoreInv

\* What a step of one handler leaves of the others.
LEMMA HandlerOthers ==
    ASSUME TypeInv, NEW c \in Sessions,
           HandlerStep(c) \/ \E src \in Sources : Receive(c, src)
    PROVE  OthersSame(c)
  <1> USE DEF TypeInv, TypeOK, OthersSame
  <1>1. CASE \E src \in Sources : Receive(c, src)
      BY <1>1 DEF Receive
  <1>2. CASE SaveOpen(c) \/ SaveLength(c) \/ CreateNew(c) \/ Fetch(c)
      BY <1>2 DEF SaveOpen, SaveLength, CreateNew, Fetch, Fails, Goto, Return
  <1>3. CASE WriteBlock(c)
      BY <1>3 DEF WriteBlock, Fails, Return
  <1> QED BY <1>1, <1>2, <1>3 DEF HandlerStep

\* A handler that fails leaves what is stored alone.
LEMMA FailsStore ==
    ASSUME TypeInv, StoreInv, NEW c \in Sessions, NEW r, Return(c, r), UNCHANGED <<files, unflushed>>
    PROVE  StoreInv' /\ FilesGrow
  <1>1. pc'[c] = "idle" /\ OthersSame(c)
      BY DEF Return, TypeInv, TypeOK, OthersSame
  <1> QED BY <1>1, QuietStore DEF Downloading

\* A block of a save: the file holds the DNA as far as it goes, so that what is
\* overwritten stays the same.
LEMMA WriteStore ==
    ASSUME DistinctPaths, TypeInv, StoreInv, NEW c \in Sessions, WriteBlock(c)
    PROVE  /\ StoreInv' /\ FilesGrow
           /\ AnsweredOk(c) /\ req[c].scheme = "save" => Len(files'[Path(c)]) = Length[Dna(c)]
  <1>1. CASE Fails(c, "write")
    <2>1. reply'[c] # "ok"
          BY <1>1 DEF Fails, Return, TypeInv, TypeOK
    <2> QED BY <1>1, <2>1, FailsStore DEF Fails, AnsweredOk
  <1>2. CASE ~Fails(c, "write")
    <2>1. /\ pc[c] \in {"save_write", "download_write"}
          /\ offset' = [offset EXCEPT ![c] = offset[c] + 1]
          /\ IF Background(c)
             THEN /\ unflushed' = unflushed \cup {[path |-> Path(c), dna |-> Dna(c)]}
                  /\ UNCHANGED files
             ELSE /\ files' = [files EXCEPT ![Path(c)] = Written(File(c), offset[c], Dna(c))]
                  /\ UNCHANGED unflushed
          /\ IF LastBlock(c)
             THEN pc' = [pc EXCEPT ![c] = "idle"]
             ELSE UNCHANGED pc
          /\ UNCHANGED req
          BY <1>2 DEF WriteBlock
    <2>2. /\ OthersSame(c) /\ req'[c] = req[c] /\ offset'[c] = offset[c] + 1
          /\ pc'[c] = IF LastBlock(c) THEN "idle" ELSE pc[c]
      <3>1. OthersSame(c)
            BY HandlerOthers DEF HandlerStep
      <3> QED BY <2>1, <3>1 DEF TypeInv, TypeOK
    <2>3. /\ req[c] \in Sources /\ Dna(c) \in Dnas /\ Path(c) \in Paths /\ Length[Dna(c)] \in Nat
          /\ offset[c] \in Nat /\ offset[c] < Length[Dna(c)]
          /\ File(c) \in Seq(Dnas) /\ File(c) # None /\ Len(File(c)) \in Nat
          /\ (pc[c] \in Saving <=> req[c].scheme = "save")
          /\ Dna(c) = req[c].dna /\ Path(c) = PathOf(req[c])
          BY <2>1, HandlerHas, LenProperties DEF Opening, File
    <2>4. CASE pc[c] = "download_write"
      <3>1. \/ /\ files' = [files EXCEPT ![Path(c)] = Written(File(c), offset[c], Dna(c))]
               /\ UNCHANGED unflushed
            \/ /\ LastBlock(c) /\ UNCHANGED files
               /\ unflushed' = unflushed \cup {[path |-> Path(c), dna |-> Dna(c)]}
            BY <2>1 DEF Background
      <3>2. StoreInv' /\ FilesGrow
            BY <2>2, <2>4, <3>1, DownloadStore
      <3> QED BY <2>3, <2>4, <3>2 DEF Saving
    <2>5. CASE pc[c] = "save_write"
      <3> DEFINE new == Written(File(c), offset[c], Dna(c))
      <3>1. files' = [files EXCEPT ![Path(c)] = new] /\ UNCHANGED unflushed
            BY <2>1, <2>3, <2>5 DEF Background, Saving
      <3>2. offset[c] <= Len(File(c)) /\ Holds(File(c), Dna(c))
            BY <2>3, <2>5 DEF StoreInv, SaveInv, HoldInv, File
      <3>3. /\ new \in Seq(Dnas) /\ Len(File(c)) <= Len(new) /\ offset[c] + 1 <= Len(new)
            /\ Len(new) = IF offset[c] < Len(File(c)) THEN Len(File(c)) ELSE offset[c] + 1
            /\ \A j \in 1 .. Len(new) :
                  new[j] = Dna(c) \/ (j <= Len(File(c)) /\ new[j] = File(c)[j])
        <4>1. /\ new \in Seq(Dnas) /\ Len(File(c)) <= Len(new)
              /\ offset[c] <= Len(File(c)) =>
                   /\ offset[c] + 1 <= Len(new)
                   /\ Len(new) = IF offset[c] < Len(File(c)) THEN Len(File(c)) ELSE offset[c] + 1
              /\ \A j \in 1 .. Len(new) :
                    new[j] = Dna(c) \/ (j <= Len(File(c)) /\ new[j] = File(c)[j])
          <5>1. File(c) \in Seq(Dnas) /\ offset[c] \in Nat /\ Dna(c) \in Dnas
                BY <2>3
          <5> HIDE DEF Written
          <5> QED BY <5>1, WriteExtends
        <4> HIDE DEF new
        <4> QED BY <3>2, <4>1
      <3> HIDE DEF new
      <3>4. Holds(new, Dna(c))
        <4>1. \A j \in 1 .. Len(new) : new[j] = Dna(c)
              BY <2>3, <3>2, <3>3 DEF Holds
        <4>2. Len(new) <= Length[Dna(c)]
              BY <2>3, <3>2, <3>3 DEF Holds
        <4> QED BY <4>1, <4>2 DEF Holds
      <3>5. StoreInv' /\ FilesGrow
        <4>1. pc[c] \in Saving /\ pc'[c] \notin Downloading /\ offset'[c] <= Len(new)
              BY <2>2, <2>5, <3>3 DEF Saving, Downloading
        <4> QED BY <2>2, <3>1, <3>3, <3>4, <4>1, SaveStore
      <3>6. AnsweredOk(c) => Len(files'[Path(c)]) = Length[Dna(c)]
        <4>1. files'[Path(c)] = new
              BY <2>3, <3>1, FilesStep
        <4>2. AnsweredOk(c) => LastBlock(c)
              BY <2>2 DEF AnsweredOk
        <4>3. Len(new) \in Nat
              BY <3>3, LenProperties
        <4> QED BY <2>3, <3>3, <3>4, <4>1, <4>2, <4>3 DEF LastBlock, Holds
      <3> QED BY <3>5, <3>6
    <2> QED BY <2>1, <2>4, <2>5
  <1> QED BY <1>1, <1>2

\* Every step of a handler keeps what is stored, and a save that is answered with ok has
\* stored all of it.
LEMMA HandlerStore ==
    ASSUME DistinctPaths, TypeInv, StoreInv, NEW c \in Sessions, HandlerStep(c)
    PROVE  /\ StoreInv' /\ FilesGrow
           /\ AnsweredOk(c) /\ req[c].scheme = "save" => Len(files'[Path(c)]) = Length[Dna(c)]
  <1>1. ASSUME NEW fault, Fails(c, fault)
        PROVE  StoreInv' /\ FilesGrow /\ ~AnsweredOk(c)
    <2>1. reply'[c] # "ok"
          BY <1>1 DEF Fails, Return, TypeInv, TypeOK
    <2> QED BY <1>1, <2>1, FailsStore DEF Fails, AnsweredOk
  <1>2. OthersSame(c)
      BY HandlerOthers
  <1>3. ASSUME NEW label, Goto(c, label)
        PROVE  pc'[c] = label /\ req'[c] = req[c] /\ offset'[c] = offset[c]
      BY <1>3, GotoStep DEF TypeInv
  <1>4. CASE SaveOpen(c) /\ ~Fails(c, "create")
    <2>1. /\ pc[c] = "save_open" /\ files' = [files EXCEPT ![Path(c)] = Opened(File(c))]
          /\ Goto(c, "save_length") /\ UNCHANGED unflushed
          BY <1>4 DEF SaveOpen
    <2>2. /\ req[c] \in Sources /\ Path(c) = PathOf(req[c]) /\ Dna(c) = req[c].dna
          /\ Path(c) \in Paths /\ Length[Dna(c)] \in Nat
          BY <2>1, HandlerHas
    <2>3. Opened(File(c)) \in Seq(Dnas) /\ Holds(Opened(File(c)), Dna(c))
          /\ (File(c) # None => Len(File(c)) <= Len(Opened(File(c))))
      <3>1. CASE File(c) = None
            BY <2>2, <3>1 DEF Opened, Holds
      <3>2. CASE File(c) # None
        <4>1. File(c) \in Seq(Dnas) /\ Holds(File(c), Dna(c))
              BY <2>2, <3>2 DEF StoreInv, HoldInv, File, TypeInv, TypeOK
        <4> QED BY <3>2, <4>1, LenProperties DEF Opened
      <3> QED BY <3>1, <3>2
    <2>4. pc[c] \in Saving /\ pc'[c] = "save_length" /\ req'[c] = req[c]
          BY <1>3, <2>1 DEF Saving
    <2>5. StoreInv' /\ FilesGrow
          BY <1>2, <2>1, <2>3, <2>4, SaveStore DEF Downloading
    <2> QED BY <2>4, <2>5 DEF AnsweredOk
  <1>5. CASE SaveLength(c)
    <2>1. CASE Return(c, "ok") /\ LengthMatches(c)
      <3>1. StoreInv' /\ FilesGrow
            BY <1>5, <2>1, FailsStore DEF SaveLength
      <3>2. Len(files'[Path(c)]) = Length[Dna(c)]
            BY <1>5, <2>1 DEF SaveLength, LengthMatches, File
      <3> QED BY <3>1, <3>2
    <2>2. CASE Goto(c, "save_write")
      <3>1. pc[c] = "save_length" /\ pc'[c] = "save_write" /\ UNCHANGED <<files, unflushed>>
            /\ req'[c] = req[c] /\ offset'[c] = offset[c]
            BY <1>3, <1>5, <2>2 DEF SaveLength
      <3>2. StoreInv' /\ FilesGrow
            BY <1>2, <3>1, QuietStore DEF Downloading
      <3> QED BY <3>1, <3>2 DEF AnsweredOk
    <2> QED BY <1>5, <2>1, <2>2 DEF SaveLength
  <1>6. CASE CreateNew(c) /\ ~Fails(c, "create")
    <2>1. req[c].scheme # "save"
          BY <1>6, HandlerHas DEF CreateNew, Saving
    <2>2. CASE File(c) # None
          BY <1>6, <2>1, <2>2, FailsStore DEF CreateNew
    <2>3. CASE File(c) = None
      <3>1. /\ pc[c] = "create_new" /\ files' = [files EXCEPT ![Path(c)] = <<>>]
            /\ Goto(c, "fetch") /\ UNCHANGED unflushed
            BY <1>6, <2>3 DEF CreateNew
      <3>2. StoreInv' /\ FilesGrow
            BY <1>2, <1>3, <2>3, <3>1, CreateStore
      <3> QED BY <2>1, <3>2
    <2> QED BY <2>2, <2>3
  <1>7. CASE Fetch(c) /\ ~Fails(c, "fetch")
    <2>1. /\ pc[c] = "fetch" /\ Goto(c, "download_write") /\ UNCHANGED <<files, unflushed>>
          BY <1>7 DEF Fetch
    <2>2. StoreInv' /\ FilesGrow /\ pc'[c] = "download_write"
          BY <1>2, <1>3, <2>1, QuietStore DEF Downloading
    <2> QED BY <2>2 DEF AnsweredOk
  <1> QED BY <1>1, <1>4, <1>5, <1>6, <1>7, WriteStore DEF HandlerStep

\* Every step keeps what is stored, and only a restart takes a file away.
LEMMA StoreStep ==
    DistinctPaths /\ TypeInv /\ StoreInv /\ [Next]_vars => StoreInv' /\ (FilesGrow \/ Restart)
  <1> SUFFICES ASSUME DistinctPaths, TypeInv, StoreInv, [Next]_vars
               PROVE  StoreInv' /\ (FilesGrow \/ Restart)
      OBVIOUS
  <1>1. CASE UNCHANGED vars
    <2>1. FilesGrow
          BY <1>1, LenProperties DEF vars, FilesGrow, TypeInv, TypeOK
    <2> QED
      BY <1>1, <2>1
         DEF vars, sessions, StoreInv, HoldInv, SaveInv, DownloadInv, File, Path
  <1>2. ASSUME NEW c \in Sessions, NEW src \in Sources, Receive(c, src)
        PROVE  StoreInv' /\ FilesGrow
    <2>1. pc'[c] \in Opening /\ UNCHANGED <<files, unflushed>> /\ OthersSame(c)
          BY <1>2, HandlerOthers DEF Receive, Opening, TypeInv, TypeOK
    <2> QED BY <2>1, QuietStore DEF Opening, Downloading
  <1>3. CASE Restart
    <2>1. /\ \A src \in Sources : files'[PathOf(src)] = None
          /\ unflushed' = {} /\ \A c \in Sessions : pc'[c] = "idle"
          BY <1>3, PathsAndDnas DEF Restart
    <2> QED BY <1>3, <2>1 DEF StoreInv, HoldInv, SaveInv, DownloadInv, Downloading
  <1> QED BY <1>1, <1>2, <1>3, HandlerStore, FlushStore DEF Next, Finished

\* A handler that is under way has not answered.
ReplyInv == \A c \in Sessions : pc[c] # "idle" => reply[c] # "ok"

\* A handler that is under way has not answered.
LEMMA ReplyStep == TypeInv /\ ReplyInv /\ [Next]_vars => ReplyInv'
  <1> SUFFICES ASSUME TypeInv, ReplyInv, [Next]_vars, NEW c \in Sessions, pc'[c] # "idle"
               PROVE  reply'[c] # "ok"
      BY DEF ReplyInv
  <1> USE DEF TypeInv, TypeOK, ReplyInv
  <1>1. CASE UNCHANGED vars
      BY <1>1 DEF vars, sessions
  <1>2. ASSUME NEW d \in Sessions, NEW src \in Sources, Receive(d, src)
        PROVE  reply'[c] # "ok"
      BY <1>2 DEF Receive
  <1>3. ASSUME NEW d \in Sessions, SaveOpen(d) \/ SaveLength(d) \/ CreateNew(d) \/ Fetch(d)
        PROVE  reply'[c] # "ok"
      BY <1>3 DEF SaveOpen, SaveLength, CreateNew, Fetch, Fails, Goto, Return
  <1>4. ASSUME NEW d \in Sessions, WriteBlock(d) PROVE reply'[c] # "ok"
      BY <1>4 DEF WriteBlock, Fails, Return
  <1>5. CASE Flush \/ Restart
      BY <1>5 DEF Flush, Restart, sessions
  <1> QED BY <1>1, <1>2, <1>3, <1>4, <1>5 DEF Next, Finished, HandlerStep

DnaInv == TypeInv /\ StoreInv /\ ReplyInv

\* The invariant holds in every reachable state, if the paths are distinct.
LEMMA DnaInductive == DistinctPaths => (Spec => []DnaInv)
  <1> SUFFICES ASSUME DistinctPaths PROVE Spec => []DnaInv
      OBVIOUS
  <1>1. Init => DnaInv
    <2> SUFFICES ASSUME Init PROVE DnaInv
        OBVIOUS
    <2>1. TypeInv /\ ReplyInv
          BY DEF Init, TypeInv, TypeOK, HandlerInv, UnflushedInv, ReplyInv
    <2>2. \A src \in Sources : files[PathOf(src)] = None
          BY PathsAndDnas DEF Init
    <2> QED
      BY <2>1, <2>2
         DEF Init, DnaInv, StoreInv, HoldInv, SaveInv, DownloadInv, Downloading
  <1>2. DnaInv /\ [Next]_vars => DnaInv'
      BY TypeStep, StoreStep, ReplyStep DEF DnaInv
  <1> QED BY <1>1, <1>2, PTL DEF Spec

\* A file holds the beginning of its DNA and nothing else, whoever writes it, in whatever
\* order, and however often a save failed halfway and was repeated.
THEOREM FilesHold == DistinctPaths => (Spec => []FilesHoldTheirDna)
  <1> SUFFICES ASSUME DistinctPaths PROVE Spec => []FilesHoldTheirDna
      OBVIOUS
  <1>1. DnaInv => FilesHoldTheirDna
    <2> SUFFICES ASSUME DnaInv, NEW src \in Sources, files[PathOf(src)] # None
                 PROVE  IsPrefix(files[PathOf(src)], Content(src.dna))
        BY DEF FilesHoldTheirDna
    <2>1. files[PathOf(src)] \in Seq(Dnas) /\ src.dna \in Dnas /\ Holds(files[PathOf(src)], src.dna)
          BY PathsAndDnas DEF DnaInv, TypeInv, TypeOK, StoreInv, HoldInv
    <2> QED BY <2>1, PrefixHolds
  <1> QED BY <1>1, DnaInductive, PTL

\* A file that holds all of its DNA is what Stored says.
LEMMA FullIsStored ==
    ASSUME TypeInv, HoldInv, NEW src \in Sources
    PROVE  Stored(src) <=> files[PathOf(src)] # None /\ Len(files[PathOf(src)]) = Length[src.dna]
  <1>1. src.dna \in Dnas /\ PathOf(src) \in Paths /\ Length[src.dna] \in Nat
      BY PathsAndDnas
  <1>2. Content(src.dna) \in Seq(Dnas)
      BY <1>1, IsASeq DEF Content
  <1>3. files[PathOf(src)] # None => files[PathOf(src)] \in Seq(Dnas) /\ Holds(files[PathOf(src)], src.dna)
      BY <1>1 DEF TypeInv, TypeOK, HoldInv
  <1> QED BY <1>1, <1>2, <1>3, PrefixHolds DEF Stored

\* A file that was complete once stays complete until the server is started again.
THEOREM StaysStored == DistinctPaths => (Spec => StoredStaysStored)
  <1> SUFFICES ASSUME DistinctPaths PROVE Spec => StoredStaysStored
      OBVIOUS
  <1>1. DnaInv /\ DnaInv' /\ [Next]_vars => [\A src \in Sources : Stored(src) => Stored(src)' \/ Restart]_vars
    <2> SUFFICES ASSUME DnaInv, DnaInv', [Next]_vars, NEW src \in Sources, Stored(src), ~Restart
                 PROVE  Stored(src)'
        OBVIOUS
    <2>1. FilesGrow
          BY StoreStep DEF DnaInv
    <2>2. PathOf(src) \in Paths /\ src.dna \in Dnas /\ Length[src.dna] \in Nat
          BY PathsAndDnas
    <2>3. files[PathOf(src)] # None /\ Len(files[PathOf(src)]) = Length[src.dna]
          BY FullIsStored DEF DnaInv, StoreInv
    <2>4. files'[PathOf(src)] # None /\ Length[src.dna] <= Len(files'[PathOf(src)])
          BY <2>1, <2>2, <2>3 DEF FilesGrow
    <2>5. files'[PathOf(src)] \in Seq(Dnas) /\ Holds(files'[PathOf(src)], src.dna)
          BY <2>2, <2>4 DEF DnaInv, TypeInv, TypeOK, StoreInv, HoldInv
    <2>6. Len(files'[PathOf(src)]) = Length[src.dna]
          BY <2>2, <2>4, <2>5, LenProperties DEF Holds
    <2> QED BY <2>2, <2>5, <2>6, PrefixHolds DEF Stored
  <1> QED BY <1>1, DnaInductive, PTL DEF Spec, StoredStaysStored

\* A save that is answered with ok has left the whole DNA in its file.
THEOREM SaveStores == DistinctPaths => (Spec => SaveOkMeansStored)
  <1> SUFFICES ASSUME DistinctPaths PROVE Spec => SaveOkMeansStored
      OBVIOUS
  <1>1. DnaInv /\ DnaInv' /\ [Next]_vars =>
          [\A c \in Sessions : AnsweredOk(c) /\ req[c].scheme = "save" => Stored(req[c])']_vars
    <2> SUFFICES ASSUME DnaInv, DnaInv', Next, NEW c \in Sessions, AnsweredOk(c),
                        req[c].scheme = "save"
                 PROVE  Stored(req[c])'
        BY DEF vars
    <2>1. pc[c] # "idle" /\ pc'[c] = "idle" /\ reply'[c] = "ok" /\ reply[c] # "ok"
          BY DEF AnsweredOk, DnaInv, ReplyInv
    <2>2. ~Restart /\ ~Flush /\ ~Finished
          BY <2>1 DEF Restart, Flush, Finished, vars, sessions
    <2>3. \A d \in Sessions, src \in Sources : ~Receive(d, src)
      <3> SUFFICES ASSUME NEW d \in Sessions, NEW src \in Sources, Receive(d, src) PROVE FALSE
          OBVIOUS
      <3> QED BY <2>1 DEF Receive, DnaInv, TypeInv, TypeOK
    <2>4. PICK d \in Sessions : HandlerStep(d)
          BY <2>2, <2>3 DEF Next
    <2>5. d = c
          BY <2>1, <2>4, HandlerOthers DEF DnaInv, OthersSame
    <2>6. Len(files'[Path(c)]) = Length[Dna(c)]
          BY <2>4, <2>5, HandlerStore DEF DnaInv
    <2>7. req'[c] = req[c]
          BY <2>4, <2>5
             DEF HandlerStep, SaveOpen, SaveLength, CreateNew, Fetch, WriteBlock,
                            Fails, Goto, Return
    <2>8. /\ req[c] \in Sources /\ Path(c) = PathOf(req[c]) /\ Dna(c) = req[c].dna
          /\ Path(c) \in Paths /\ Dna(c) \in Dnas
          BY <2>1, HandlerHas DEF DnaInv
    <2>9. files'[Path(c)] # None
      <3>1. pc[c] \in Saving /\ pc[c] # "create_new"
            BY <2>1, HandlerHas DEF DnaInv, Saving
      <3>2. ~SaveOpen(c)
        <4>1. SaveOpen(c) => reply'[c] \in {reply[c], "error"}
              BY DEF SaveOpen, Goto, Fails, Return, DnaInv, TypeInv, TypeOK
        <4> QED BY <2>1, <4>1
      <3>3. pc[c] \notin Opening
            BY <2>4, <2>5, <3>1, <3>2
               DEF HandlerStep, SaveLength, CreateNew, Fetch, WriteBlock, Opening
      <3>4. files[Path(c)] # None
            BY <2>1, <3>3, HandlerHas DEF DnaInv
      <3>5. FilesGrow
            BY <2>4, <2>5, HandlerStore DEF DnaInv
      <3> QED BY <2>8, <3>4, <3>5 DEF FilesGrow
    <2> QED
      BY <2>6, <2>7, <2>8, <2>9, PrefixHolds
         DEF Stored, DnaInv, TypeInv, TypeOK, StoreInv, HoldInv
  <1> QED BY <1>1, DnaInductive, PTL DEF Spec, SaveOkMeansStored
=============================================================================
