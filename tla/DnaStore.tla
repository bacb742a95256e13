------------------------------ MODULE DnaStore ------------------------------
(***************************************************************************)
(* The DNA files of a trycp server under DNA_DIR_PATH: save_dna stores the *)
(* content that a client sends under an id (save_dna.rs) and download_dna  *)
(* fetches a URL (download_dna.rs).  Both return the path of the file, for *)
(* the conductor to read.                                                  *)
(*                                                                         *)
(* A DNA is abstracted to a length and to whom its bytes belong: a file is *)
(* a sequence that says of each block which DNA it comes from.  Writing is *)
(* a step per block, so that two sessions that write the same file, and    *)
(* one that is told of the path meanwhile, can interleave.  The last block *)
(* of a write to a tokio File is written in the background: write_all      *)
(* returns before, and nothing flushes the file.                           *)
(***************************************************************************)
EXTENDS Naturals, SequencesExt

CONSTANTS
    Sessions,     \* websocket sessions of clients
    Sources,      \* what they save or download
    Length,       \* the number of blocks of a DNA
    MaxRequests,  \* requests the sessions send in all
    Faults,       \* the failures of the environment that may happen
    None          \* no value

FaultNames == {"create", "metadata", "fetch", "write", "restart"}

\* A source is a file of the client ("save") or a URL.  A name is a sequence
\* of characters, a path or URL path a sequence of names.
Dnas == {src.dna : src \in Sources}

ASSUME SourcesAssumption ==
    /\ \A src \in Sources : src.scheme \in {"save", "file", "https"}
    /\ Length \in [Dnas -> Nat \ {0}]
ASSUME BoundsAssumption ==
    /\ MaxRequests \in Nat /\ Faults \subseteq FaultNames
    /\ None \notin Sources /\ None \notin Seq(Dnas) /\ None \notin {"ok", "error"}

\* path.replace(/\//g, '') of the client, url.path().replace("/", "")
WithoutSlashes(segments) == FlattenSeq(segments)

\* .replace("%", "_")
WithoutPercents(name) ==
    [i \in DOMAIN name |-> IF name[i] = "%" THEN "_" ELSE name[i]]

\* get_downloaded_dna_path: the host and the query of a URL play no part.
MutDirectoriesMerged(src) == [scheme |-> "dna", name |-> src.segments]
PathOf(src) ==
    [scheme |-> src.scheme,
     name |-> IF src.scheme = "save" THEN WithoutSlashes(src.segments)
              ELSE WithoutPercents(WithoutSlashes(src.segments))]

Paths == {PathOf(src) : src \in Sources}

\* The blocks of a DNA in a file.
Content(dna) == [i \in 1..Length[dna] |-> dna]

VARIABLES
    files,      \* the files by path; None when there is none
    unflushed,  \* the blocks that are still to be written in the background
    pc,         \* the step a session's handler is at
    req,        \* the source it handles
    offset,     \* how many blocks it has written
    reply,      \* how its last request was answered
    issued      \* requests sent so far

sessions == <<pc, req, offset, reply, issued>>
vars     == <<files, unflushed, sessions>>

Init ==
    /\ files = [p \in Paths |-> None]
    /\ unflushed = {}
    /\ pc = [c \in Sessions |-> "idle"]
    /\ req = [c \in Sessions |-> None]
    /\ offset = [c \in Sessions |-> 0]
    /\ reply = [c \in Sessions |-> None]
    /\ issued = 0

Path(c) == PathOf(req[c])
File(c) == files[Path(c)]
Dna(c)  == req[c].dna

Receive(c, src) ==
    /\ pc[c] = "idle" /\ issued < MaxRequests
    /\ pc' = [pc EXCEPT ![c] = IF src.scheme = "save" THEN "save_open" ELSE "create_new"]
    /\ req' = [req EXCEPT ![c] = src]
    /\ offset' = [offset EXCEPT ![c] = 0]
    /\ reply' = [reply EXCEPT ![c] = None]
    /\ issued' = issued + 1
    /\ UNCHANGED <<files, unflushed>>

Goto(c, label) ==
    /\ pc' = [pc EXCEPT ![c] = label]
    /\ UNCHANGED <<req, offset, reply, issued>>

Return(c, r) ==
    /\ pc' = [pc EXCEPT ![c] = "idle"]
    /\ reply' = [reply EXCEPT ![c] = r]
    /\ UNCHANGED <<req, offset, issued>>

Fails(c, fault) ==
    /\ fault \in Faults
    /\ Return(c, "error")
    /\ UNCHANGED <<files, unflushed>>

\* A write at offset i of a file extends it by a block or overwrites one.
Written(file, i, dna) == IF i < Len(file) THEN [file EXCEPT ![i + 1] = dna]
                                          ELSE Append(file, dna)

-----------------------------------------------------------------------------
(* save_dna *)

\* OpenOptions: create, but do not truncate.
MutTruncated(file) == <<>>
Opened(file) == IF file = None THEN <<>> ELSE file

SaveOpen(c) ==
    /\ pc[c] = "save_open"
    /\ \/ /\ files' = [files EXCEPT ![Path(c)] = Opened(File(c))]
          /\ Goto(c, "save_length")
          /\ UNCHANGED unflushed
       \/ Fails(c, "create")

\* A file of the same length is taken to be the DNA.
MutNotEmpty(c) == File(c) # <<>>
LengthMatches(c) == Len(File(c)) = Length[Dna(c)]

SaveLength(c) ==
    /\ pc[c] = "save_length"
    /\ \/ LengthMatches(c) /\ Return(c, "ok")
       \/ (~LengthMatches(c) \/ "metadata" \in Faults) /\ Goto(c, "save_write")
    /\ UNCHANGED <<files, unflushed>>

-----------------------------------------------------------------------------
(* download_dna *)

\* OpenOptions: create_new.
CreateNew(c) ==
    /\ pc[c] = "create_new"
    /\ \/ /\ File(c) # None
          /\ Return(c, "ok")
          /\ UNCHANGED <<files, unflushed>>
       \/ /\ File(c) = None
          /\ files' = [files EXCEPT ![Path(c)] = <<>>]
          /\ Goto(c, "fetch")
          /\ UNCHANGED unflushed
       \/ Fails(c, "create")

\* The source file is opened, or the response of the HTTP server awaited.
Fetch(c) ==
    /\ pc[c] = "fetch"
    /\ \/ /\ Goto(c, "download_write")
          /\ UNCHANGED <<files, unflushed>>
       \/ Fails(c, "fetch")

-----------------------------------------------------------------------------
(* write_all and copy, a block at a time *)

MutOneBlockMore(c) == offset[c] = Length[Dna(c)]
LastBlock(c) == offset[c] + 1 = Length[Dna(c)]

\* tokio::io::copy flushes at the end, write_all on a tokio File does not.
Background(c) == req[c].scheme = "https" /\ LastBlock(c)

WriteBlock(c) ==
    /\ pc[c] \in {"save_write", "download_write"}
    /\ \/ /\ offset' = [offset EXCEPT ![c] = offset[c] + 1]
          /\ IF Background(c)
             THEN /\ unflushed' = unflushed \cup {[path |-> Path(c), dna |-> Dna(c)]}
                  /\ UNCHANGED files
             ELSE /\ files' = [files EXCEPT ![Path(c)] =
                                  Written(File(c), offset[c], Dna(c))]
                  /\ UNCHANGED unflushed
          /\ IF LastBlock(c)
             THEN /\ pc' = [pc EXCEPT ![c] = "idle"]
                  /\ reply' = [reply EXCEPT ![c] = "ok"]
             ELSE UNCHANGED <<pc, reply>>
          /\ UNCHANGED <<req, issued>>
       \/ Fails(c, "write")

Flush ==
    \E w \in unflushed :
        /\ unflushed' = unflushed \ {w}
        /\ \/ files' = [files EXCEPT ![w.path] = Append(files[w.path], w.dna)]
           \/ "write" \in Faults /\ UNCHANGED files
        /\ UNCHANGED sessions

-----------------------------------------------------------------------------
\* The server ends and another starts: main removes the directory.
Restart ==
    /\ "restart" \in Faults
    /\ files' = [p \in Paths |-> None]
    /\ unflushed' = {}
    /\ pc' = [c \in Sessions |-> "idle"]
    /\ UNCHANGED <<req, offset, reply, issued>>

HandlerStep(c) ==
    SaveOpen(c) \/ SaveLength(c) \/ CreateNew(c) \/ Fetch(c) \/ WriteBlock(c)

Finished ==
    /\ issued = MaxRequests /\ \A c \in Sessions : pc[c] = "idle"
    /\ UNCHANGED vars

Next ==
    \/ \E c \in Sessions : HandlerStep(c) \/ \E src \in Sources : Receive(c, src)
    \/ Flush \/ Restart \/ Finished

Spec == Init /\ [][Next]_vars

-----------------------------------------------------------------------------
(* Properties *)

TypeOK ==
    /\ files \in [Paths -> Seq(Dnas) \cup {None}]
    /\ unflushed \subseteq [path : Paths, dna : Dnas]
    /\ pc \in [Sessions -> {"idle", "save_open", "save_length", "save_write",
                            "create_new", "fetch", "download_write"}]
    /\ req \in [Sessions -> Sources \cup {None}]
    /\ offset \in [Sessions -> Nat]
    /\ \A c \in Sessions : req[c] # None => offset[c] <= Length[Dna(c)]
    /\ reply \in [Sessions -> {"ok", "error", None}]
    /\ issued \in 0..MaxRequests

Stored(src) == files[PathOf(src)] = Content(src.dna)

AnsweredOk(c) == pc[c] # "idle" /\ pc'[c] = "idle" /\ reply'[c] = "ok"

\* While no two sources share a path a file holds the beginning of its DNA
\* and nothing else, whoever writes it, in whatever order, and however often
\* a save failed halfway and was repeated.
FilesHoldTheirDna ==
    \A src \in Sources : files[PathOf(src)] # None =>
        IsPrefix(files[PathOf(src)], Content(src.dna))

\* A file that was complete once stays complete: a conductor may be reading
\* it while other sessions save the same DNA.
StoredStaysStored ==
    [][\A src \in Sources : Stored(src) => Stored(src)' \/ Restart]_vars

\* "Given a DNA file, stores the DNA and returns the path at which it is
\* stored" (Request::SaveDna).
SaveOkMeansStored ==
    [][\A c \in Sessions : AnsweredOk(c) /\ req[c].scheme = "save" =>
          Stored(req[c])']_vars

=============================================================================
