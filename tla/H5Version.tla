------------------------------ MODULE H5Version ------------------------------
(***************************************************************************)
(* The version guard of H5.c: H5_check_version (834-970), reached from     *)
(* H5_init_library with the library's own numbers (150) and from the       *)
(* public H5check_version with the numbers of the application's headers    *)
(* (973-984).  Its two statics, 'checked' and 'disable_version_check',     *)
(* live for the whole process, across H5close and a later re-init.         *)
(*                                                                         *)
(* One call of H5_check_version is one step: it takes no lock of its own   *)
(* and runs under the API lock of its caller.  The diagnostics on stderr   *)
(* are abstracted to the kind of warning printed.                          *)
(***************************************************************************)
EXTENDS Integers, Sequences, H5Strtol

CONSTANTS
    LibMajor, LibMinor, LibRelease, \* H5_VERS_MAJOR, _MINOR, _RELEASE
    Exceptions,     \* VERS_RELEASE_EXCEPTIONS as a sequence (H5.c 76-77)
    HeaderVersions, \* <<major, minor, release>> an application may pass
    EnvValues       \* values of HDF5_DISABLE_VERSION_CHECK; <<>> is unset

ASSUME VersionAssumption ==
    /\ {LibMajor, LibMinor, LibRelease} \subseteq Nat
    /\ Exceptions \in Seq(Nat)
    /\ HeaderVersions \subseteq Nat \X Nat \X Nat
    /\ EnvValues \subseteq Seq(STRING)

Lib == <<LibMajor, LibMinor, LibRelease>>
NoHdr == <<>>
Warnings == {"version", "release", "info"}

VARIABLES
    env,        \* getenv("HDF5_DISABLE_VERSION_CHECK") for this process
    infoOK,     \* the build's H5_lib_vers_info_g equals the derived string
    checked,    \* static bool checked
    level,      \* static unsigned disable_version_check
    firstHdr,   \* numbers of the one call that was not a cached no-op
    aborted,    \* the process was ended by abort()
    warned,     \* kinds of warning printed on stderr
    libinit,    \* H5_INIT_GLOBAL
    appCalls    \* numbers the application has passed to H5check_version

vars == <<env, infoOK, checked, level, firstHdr, aborted, warned, libinit,
          appCalls>>

TypeOK ==
    /\ env \in EnvValues
    /\ infoOK \in BOOLEAN
    /\ checked \in BOOLEAN
    /\ level \in Nat
    /\ firstHdr \in HeaderVersions \cup {Lib, NoHdr}
    /\ aborted \in BOOLEAN
    /\ warned \subseteq Warnings
    /\ libinit \in BOOLEAN
    /\ appCalls \subseteq HeaderVersions

(***************************************************************************)
(* The level read at lines 854-857: only a value starting with a digit is   *)
(* parsed, otherwise the static keeps what it held.                        *)
(***************************************************************************)
EnvLevel(old) ==
    IF env # <<>> /\ IsDigit(env[1]) THEN Strtol0(env, 1).val ELSE old

MajMinMismatch(h) == h[1] # LibMajor \/ h[2] # LibMinor

(***************************************************************************)
(* The exception loop of 900-938.  At level 0 it aborts on the first entry *)
(* equal to either release number; at level 1 it warns once per such      *)
(* entry, and 'warned' records the kind once; above it is silent.  So its  *)
(* effect is decided by whether some entry matches.                        *)
(***************************************************************************)
ReleaseExceptionLibraryOnly(h) ==
    /\ h[3] # LibRelease
    /\ \E i \in 1..Len(Exceptions) : Exceptions[i] = LibRelease

ReleaseException(h) ==
    /\ h[3] # LibRelease
    /\ \E i \in 1..Len(Exceptions) :
          Exceptions[i] = h[3] \/ Exceptions[i] = LibRelease

(***************************************************************************)
(* H5_check_version(h): a cached no-op once 'checked' is set (847-848);    *)
(* otherwise read the level, then the major/minor switch and the release   *)
(* switch, each of which aborts at level 0, warns at level 1 and is silent *)
(* above; then set 'checked' and, at level 0 only, compare the version     *)
(* string (941-966).  'checked' is never set on the abort paths.           *)
(***************************************************************************)
CheckVersionNoCache(h) ==
    LET lvl   == EnvLevel(level)
        mm    == MajMinMismatch(h)
        rx    == ReleaseException(h)
        abort == lvl = 0 /\ (mm \/ rx)
    IN  /\ level' = lvl
        /\ firstHdr' = h
        /\ aborted' = abort
        /\ checked' = ~abort
        /\ warned' = warned
                     \cup (IF lvl <= 1 /\ mm THEN {"version"} ELSE {})
                     \cup (IF lvl <= 1 /\ rx /\ ~(lvl = 0 /\ mm)
                           THEN {"release"} ELSE {})
                     \cup (IF ~abort /\ lvl = 0 /\ ~infoOK
                           THEN {"info"} ELSE {})

CheckVersion(h) ==
    \/ /\ checked
       /\ UNCHANGED <<checked, level, firstHdr, aborted, warned>>
    \/ /\ ~checked
       /\ CheckVersionNoCache(h)

(***************************************************************************)
(* H5_init_library up to the INIT flag (145-155): a no-op when already     *)
(* initialised, otherwise the check with the library's own numbers.        *)
(***************************************************************************)
InitLibrary ==
    /\ ~aborted /\ ~libinit
    /\ CheckVersion(Lib)
    /\ libinit' = ~aborted'
    /\ UNCHANGED <<env, infoOK, appCalls>>

\* Mutant: the check's statics reset with the library's own state.
TermLibraryResetsChecked ==
    /\ ~aborted /\ libinit
    /\ libinit' = FALSE /\ checked' = FALSE
    /\ UNCHANGED <<env, infoOK, level, firstHdr, aborted, warned, appCalls>>

\* H5_term_library's reset of the INIT flag (476-479); the statics survive.
TermLibrary ==
    /\ ~aborted /\ libinit
    /\ libinit' = FALSE
    /\ UNCHANGED <<env, infoOK, checked, level, firstHdr, aborted, warned,
                   appCalls>>

\* H5check_version(h) (973-984): NOINIT, so it does not start the library.
H5check_version(h) ==
    /\ ~aborted
    /\ CheckVersion(h)
    /\ appCalls' = appCalls \cup {h}
    /\ UNCHANGED <<env, infoOK, libinit>>

\* After abort() nothing runs.
ProcessAborted == aborted /\ UNCHANGED vars

Init ==
    /\ env \in EnvValues
    /\ infoOK \in BOOLEAN
    /\ checked = FALSE
    /\ level = 0
    /\ firstHdr = NoHdr
    /\ aborted = FALSE
    /\ warned = {}
    /\ libinit = FALSE
    /\ appCalls = {}

Next ==
    \/ InitLibrary
    \/ TermLibrary
    \/ \E h \in HeaderVersions : H5check_version(h)
    \/ ProcessAborted

Spec == Init /\ [][Next]_vars

-----------------------------------------------------------------------------
(***************************************************************************)
(* Reference verdict of spec 4.1: major and minor must match; a release    *)
(* difference is incompatible when either release is in the exception      *)
(* table.                                                                  *)
(***************************************************************************)
ExceptionSet == {Exceptions[i] : i \in DOMAIN Exceptions}

Incompatible(h) ==
    \/ MajMinMismatch(h)
    \/ h[3] # LibRelease /\ (h[3] \in ExceptionSet \/ LibRelease \in ExceptionSet)

(***************************************************************************)
(* The process is aborted exactly when the one effective check saw an      *)
(* incompatible pair at level 0, and a mismatch warning is printed exactly *)
(* when that check saw an incompatible pair at level 0 or 1: the switch on *)
(* 'disable_version_check' and the exception loop of H5_check_version      *)
(* together implement the three-level policy.                              *)
(***************************************************************************)
VerdictPolicy ==
    LET ran == firstHdr # NoHdr
    IN  /\ aborted <=> (ran /\ level = 0 /\ Incompatible(firstHdr))
        /\ (warned \cap {"version", "release"} # {})
              <=> (ran /\ level <= 1 /\ Incompatible(firstHdr))

(***************************************************************************)
(* Spec 5 and the test of section 8: H5check_version with headers whose    *)
(* major or minor differ aborts the process under the default override     *)
(* level 0.                                                                *)
(***************************************************************************)
MismatchAborts ==
    \A h \in appCalls : (MajMinMismatch(h) /\ EnvLevel(0) = 0) => aborted

(***************************************************************************)
(* The decision the guard has taken, read off the code's state: none      *)
(* before the first effective check, then abort, a printed mismatch       *)
(* warning, or a pass.                                                     *)
(***************************************************************************)
VerdictOf ==
    IF firstHdr = NoHdr THEN "none"
    ELSE IF aborted THEN "aborted"
    ELSE IF warned \cap {"version", "release"} # {} THEN "warned"
    ELSE "pass"

Guard == INSTANCE H5VersionGuard
           WITH Hdrs <- HeaderVersions \cup {Lib}, Bad <- Incompatible,
                hdr <- firstHdr, lvl <- level, verdict <- VerdictOf

(***************************************************************************)
(* H5_check_version implements the promised guard: the first effective    *)
(* call decides once, by the three-level policy, for its own numbers and  *)
(* level, and no later call (from H5_init_library or H5check_version,     *)
(* before or after H5close) changes the decision.                         *)
(***************************************************************************)
VersionGuardRefined == Guard!Spec

=============================================================================
