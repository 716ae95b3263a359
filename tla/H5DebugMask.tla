----------------------------- MODULE H5DebugMask -----------------------------
(***************************************************************************)
(* The debug configuration of H5.c: the reset of H5_debug_g (188), the two *)
(* calls H5__debug_mask("-all") and H5__debug_mask(getenv("HDF5_DEBUG"))   *)
(* at the end of H5_init_library (283-284), one step per iteration of the  *)
(* parser's while loop (660-741), and the loop of H5_term_library that     *)
(* closes the opened streams (466-473).                                    *)
(*                                                                         *)
(* A flag string is a sequence of items: a one-character string for the    *)
(* digits, signs and separators, and one string for a whole alphabetic     *)
(* run (a name), as the name loop of the parser reads it.  FILE objects    *)
(* are numbered: StdErr is the process's stderr, k > 0 the k-th stream     *)
(* fdopen created, NullStream the NULL pointer.  The descriptors are the   *)
(* process's: fdopen(fd, "w") succeeds on an open one, and fclose closes   *)
(* the descriptor under the stream.                                        *)
(***************************************************************************)
EXTENDS Integers, Sequences, FiniteSets, H5Strtol

CONSTANTS
    Pkgs,       \* names of H5_debug_g.pkg[] (H5.c 189-208)
    EnvInputs,  \* values of HDF5_DEBUG; <<>> is unset or empty
    OpenFds     \* descriptors open for writing when the library starts

Reserved == {"all", "trace", "ttop", "ttimes"}
Signs == {"+", "-"}
Separators == {",", " "}

\* isalpha on the first character of an item
IsAlpha(c) == ~IsDigit(c) /\ c \notin Signs \cup Separators

ASSUME DebugMaskAssumption ==
    /\ Pkgs \subseteq STRING /\ Pkgs \cap Reserved = {}
    /\ OpenFds \subseteq Nat /\ 2 \in OpenFds
    /\ \A e \in EnvInputs :
          /\ e \in Seq(STRING)
          \* a name item stands for a whole alphabetic run
          /\ \A i \in 1..(Len(e) - 1) : ~(IsAlpha(e[i]) /\ IsAlpha(e[i + 1]))

NullStream == -1
StdErr == 0
MaskAll == <<"-", "all">>
Phases == {"mask_all", "mask_env", "live", "closing", "closed"}

VARIABLES
    env,         \* getenv("HDF5_DEBUG")
    phase,       \* which call is running, or the library's state after them
    input, pos,  \* the argument of the running call, and s as a position
    cur,         \* the local 'stream' of the running call
    pkgStream,   \* H5_debug_g.pkg[i].stream
    trace,       \* H5_debug_g.trace
    ttop,        \* H5_debug_g.ttop
    ttimes,      \* H5_debug_g.ttimes
    openList,    \* H5_debug_g.open_stream, head first
    files,       \* files[k]: the descriptor of the k-th fdopen'ed stream
    closedFiles, \* streams that were fclose'd
    fdOpen       \* descriptors of the process that are open

vars == <<env, phase, input, pos, cur, pkgStream, trace, ttop, ttimes,
          openList, files, closedFiles, fdOpen>>

Streams == {NullStream, StdErr} \cup (1..Len(files))

Range(s) == {s[i] : i \in DOMAIN s}

TypeOK ==
    /\ env \in EnvInputs
    /\ phase \in Phases
    /\ input \in Seq(STRING) /\ pos \in 1..(Len(input) + 1)
    /\ cur \in Streams
    /\ pkgStream \in [Pkgs -> Streams] /\ trace \in Streams
    /\ ttop \in BOOLEAN /\ ttimes \in BOOLEAN
    /\ openList \in Seq(1..Len(files))
    /\ files \in Seq(Nat) /\ closedFiles \subseteq 1..Len(files)
    /\ fdOpen \subseteq OpenFds

Parsing == phase \in {"mask_all", "mask_env"}

(***************************************************************************)
(* Return from the running call: after "-all" comes HDF5_DEBUG, with the   *)
(* local stream back at stderr; after that the library is live.            *)
(***************************************************************************)
ReturnFromMask ==
    IF phase = "mask_all"
    THEN /\ phase' = "mask_env" /\ input' = env /\ pos' = 1
         /\ cur' = StdErr
    ELSE /\ phase' = "live" /\ UNCHANGED <<input, pos, cur>>

EndOfString ==
    /\ Parsing /\ pos > Len(input)
    /\ ReturnFromMask
    /\ UNCHANGED <<env, pkgStream, trace, ttop, ttimes, openList, files,
                   closedFiles, fdOpen>>

(***************************************************************************)
(* The name branch (668-716): an optional sign, the alphabetic run, then   *)
(* trace, ttop, ttimes, all, or the package of that name.  An empty or     *)
(* unknown name changes nothing ("ignored" on stderr).                     *)
(***************************************************************************)
NameToken ==
    /\ Parsing /\ pos <= Len(input)
    /\ IsAlpha(input[pos]) \/ input[pos] \in Signs
    /\ LET clear  == input[pos] = "-"
           npos   == IF input[pos] \in Signs THEN pos + 1 ELSE pos
           named  == npos <= Len(input) /\ IsAlpha(input[npos])
           name   == IF named THEN input[npos] ELSE ""
           target == IF clear THEN NullStream ELSE cur
       IN  /\ pos' = IF named THEN npos + 1 ELSE npos
           /\ trace' = CASE name = "trace"             -> target
                         [] name \in {"ttop", "ttimes"} -> cur
                         [] OTHER                       -> trace
           /\ ttop' = IF name = "ttop" THEN ~clear ELSE ttop
           /\ ttimes' = IF name = "ttimes" THEN ~clear ELSE ttimes
           /\ pkgStream' = CASE name = "all"  -> [p \in Pkgs |-> target]
                             [] name \in Pkgs -> [pkgStream EXCEPT ![name] = target]
                             [] OTHER         -> pkgStream
    /\ UNCHANGED <<env, phase, input, cur, openList, files, closedFiles, fdOpen>>

(***************************************************************************)
(* The descriptor branch (717-736): fd = strtol(s, &rest, 0); fdopen, then *)
(* a list record from H5MM_malloc.  If the malloc fails the new stream is  *)
(* fclose'd and the call returns, dropping the rest of the string; if      *)
(* fdopen fails the local stream becomes NULL.                             *)
(***************************************************************************)
RecordAllocated(k, rest) ==
    /\ cur' = k /\ pos' = rest
    /\ openList' = <<k>> \o openList
    /\ UNCHANGED <<closedFiles, fdOpen>>

RecordAllocFailedNoClose(k, r) ==
    /\ ReturnFromMask
    /\ UNCHANGED <<openList, closedFiles, fdOpen>>

RecordAllocFailedNoReturn(k, r) ==
    /\ cur' = k /\ pos' = r.rest /\ UNCHANGED <<phase, input>>
    /\ closedFiles' = closedFiles \cup {k}
    /\ fdOpen' = fdOpen \ {r.val}
    /\ UNCHANGED openList

RecordAllocFailed(k, r) ==
    /\ closedFiles' = closedFiles \cup {k}
    /\ fdOpen' = fdOpen \ {r.val}
    /\ ReturnFromMask
    /\ UNCHANGED openList

FdToken ==
    /\ Parsing /\ pos <= Len(input) /\ IsDigit(input[pos])
    /\ LET r == Strtol0(input, pos)
           k == Len(files) + 1
       IN  IF r.val \in fdOpen
           THEN /\ files' = Append(files, r.val)
                /\ \/ RecordAllocated(k, r.rest) /\ UNCHANGED <<phase, input>>
                   \/ RecordAllocFailed(k, r)
           ELSE /\ cur' = NullStream /\ pos' = r.rest
                /\ UNCHANGED <<phase, input, openList, files, closedFiles,
                               fdOpen>>
    /\ UNCHANGED <<env, pkgStream, trace, ttop, ttimes>>

\* Any other character is skipped (737-739).
SkipChar ==
    /\ Parsing /\ pos <= Len(input)
    /\ ~IsDigit(input[pos]) /\ ~IsAlpha(input[pos]) /\ input[pos] \notin Signs
    /\ pos' = pos + 1
    /\ UNCHANGED <<env, phase, input, cur, pkgStream, trace, ttop, ttimes,
                   openList, files, closedFiles, fdOpen>>

(***************************************************************************)
(* H5_term_library frees the open-stream list (466-473): one fclose per    *)
(* iteration, head first; H5_debug_g.pkg and .trace are left as they are.  *)
(***************************************************************************)
TermStart ==
    /\ phase = "live" /\ phase' = "closing"
    /\ UNCHANGED <<env, input, pos, cur, pkgStream, trace, ttop, ttimes,
                   openList, files, closedFiles, fdOpen>>

\* Mutant: the list head is not advanced after the fclose (line 471 lost).
CloseStreamNoPop ==
    /\ phase = "closing" /\ openList # <<>>
    /\ LET k == Head(openList)
       IN  /\ closedFiles' = closedFiles \cup {k}
           /\ fdOpen' = fdOpen \ {files[k]}
    /\ UNCHANGED <<env, phase, input, pos, cur, pkgStream, trace, ttop, ttimes,
                   openList, files>>

CloseStream ==
    /\ phase = "closing" /\ openList # <<>>
    /\ LET k == Head(openList)
       IN  /\ closedFiles' = closedFiles \cup {k}
           /\ fdOpen' = fdOpen \ {files[k]}
    /\ openList' = Tail(openList)
    /\ UNCHANGED <<env, phase, input, pos, cur, pkgStream, trace, ttop, ttimes,
                   files>>

CloseDone ==
    /\ phase = "closing" /\ openList = <<>> /\ phase' = "closed"
    /\ UNCHANGED <<env, input, pos, cur, pkgStream, trace, ttop, ttimes,
                   openList, files, closedFiles, fdOpen>>

\* The run ends with the library closed.
Closed == phase = "closed" /\ UNCHANGED vars

Init ==
    /\ env \in EnvInputs
    /\ phase = "mask_all" /\ input = MaskAll /\ pos = 1 /\ cur = StdErr
    /\ pkgStream = [p \in Pkgs |-> NullStream] /\ trace = NullStream
    /\ ttop = FALSE /\ ttimes = FALSE
    /\ openList = <<>> /\ files = <<>> /\ closedFiles = {}
    /\ fdOpen = OpenFds

Next ==
    \/ EndOfString \/ NameToken \/ FdToken \/ SkipChar
    \/ TermStart \/ CloseStream \/ CloseDone \/ Closed

Spec == Init /\ [][Next]_vars

-----------------------------------------------------------------------------
(***************************************************************************)
(* Every stream the parser fdopen'ed is either on H5_debug_g.open_stream,  *)
(* where H5_term_library will close it, or already closed: the malloc      *)
(* failure path of the descriptor branch does not leak the FILE.           *)
(***************************************************************************)
OpenStreamsTracked ==
    \A k \in 1..Len(files) : k \in Range(openList) \/ k \in closedFiles

(***************************************************************************)
(* Until termination starts, every stream the package table, the trace     *)
(* setting or the running call may write to is stderr, NULL or a stream on *)
(* the open list: none refers to a FILE that was already fclose'd.         *)
(***************************************************************************)
StreamsOwned ==
    phase \in {"mask_all", "mask_env", "live"} =>
        \A st \in {cur, trace} \cup Range(pkgStream) :
            st \in {NullStream, StdErr} \cup Range(openList)

(***************************************************************************)
(* Spec 4.2: failure to open a requested descriptor leaves the current     *)
(* stream unchanged, so the current stream is stderr or an opened stream,  *)
(* never NULL.                                                             *)
(***************************************************************************)
CurrentStreamKept == Parsing => cur # NullStream

(***************************************************************************)
(* Spec: opened streams are tracked in an owned list and closed during     *)
(* termination.  So while the mask is being parsed or the library is live, *)
(* every stream on H5_debug_g.open_stream still has its descriptor open:   *)
(* no other step of H5__debug_mask (the fclose when a token's malloc fails,*)
(* on a descriptor shared by fdopen with an owned stream) may close it.    *)
(***************************************************************************)
OwnedStreamsWritable ==
    phase \in {"mask_all", "mask_env", "live"} =>
        \A k \in Range(openList) : files[k] \in fdOpen

(***************************************************************************)
(* The streams of H5__debug_mask and H5_term_library follow the promised   *)
(* life of H5DebugStreams: the k-th fdopen opens stream k, the list holds  *)
(* the owned ones, and each fclose (malloc failure or close loop) closes   *)
(* a stream that is owned or was never recorded, so none is closed twice.  *)
(***************************************************************************)
Registry == INSTANCE H5DebugStreams
              WITH opened <- 1..Len(files), owned <- Range(openList),
                   closed <- closedFiles

StreamRegistryRefined == Registry!Spec

=============================================================================
