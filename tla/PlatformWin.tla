----------------------------- MODULE PlatformWin -----------------------------
(***************************************************************************)
(* The Windows process-coordination layer (src/src/platform_win.cc):       *)
(* worker processes open one named mutex and one named file mapping, take  *)
(* the mutex around their use of the mapped buffer, and close both when    *)
(* they are done.  Every Win32 call is followed by CheckForError, which    *)
(* reads the thread's GetLastError() and terminates the process (exit(1))  *)
(* unless it is ERROR_SUCCESS or in the call's allow list.                 *)
(*                                                                         *)
(* The Win32 calls themselves are modelled as succeeding.  A successful    *)
(* call either leaves the thread's last-error value as it was or clears it *)
(* (Win32 does not specify which, call by call), except that creating a    *)
(* named object sets ERROR_ALREADY_EXISTS when the object already existed  *)
(* and ERROR_SUCCESS when the call created it.  Other                       *)
(* code of the process may leave a failure code behind (OtherCall), and a  *)
(* process may be killed at any point (Kill).  The kernel side is the       *)
(* owner and the abandoned flag of each mutex object, and which processes  *)
(* hold a handle or a view of the file mapping.                            *)
(***************************************************************************)
EXTENDS Naturals

CONSTANTS
    Proc,        \* the worker processes
    NamedMutex,  \* the kernel mutex object behind the mutex's name
    NoProc,      \* no owner
    NoHandle,    \* INVALID_HANDLE_VALUE
    Debug,       \* TRUE: assert() is compiled in (no NDEBUG)
    MaxLocks     \* lock scopes a process enters, at most

ASSUME PlatformAssumption ==
    /\ NoProc \notin Proc
    /\ NamedMutex \notin Proc /\ NoHandle \notin Proc \cup {NamedMutex}
    /\ Debug \in BOOLEAN
    /\ MaxLocks \in Nat

\* A private (unnamed) mutex object is identified by the process owning it.
MutexObjects == {NamedMutex} \cup Proc

\* GetLastError() values: the two the code allows, and FILE_NOT_FOUND for any
\* failure code some other call of the process leaves behind.
Errors == {"SUCCESS", "ALREADY_EXISTS", "NO_MORE_FILES", "FILE_NOT_FOUND"}

\* Where a process is in its use of the platform objects.
Phases == {"start", "has_mutex", "ready", "locked", "unmapped", "done", "exited"}

VARIABLES
    pc,          \* pc[p]: phase of process p
    handle,      \* handle[p]: PlatformMutexWin::raw_mutex of p
    owner,       \* owner[o]: the process owning mutex object o
    abandoned,   \* abandoned[o]: o's owner terminated while owning it
    mapping,     \* mapping[p]: p holds a handle of the file mapping (shmem_)
    view,        \* view[p]: p has the mapping mapped (data != nullptr)
    lastError,   \* lastError[p]: p's GetLastError() value
    locks,       \* locks[p]: lock scopes p has entered
    waitResult,  \* waitResult[p]: what p's last WaitForSingleObject returned
    exitReason   \* exitReason[p]: why p terminated

vars == <<pc, handle, owner, abandoned, mapping, view, lastError, locks,
          waitResult, exitReason>>

TypeOK ==
    /\ pc \in [Proc -> Phases]
    /\ handle \in [Proc -> MutexObjects \cup {NoHandle}]
    /\ owner \in [MutexObjects -> Proc \cup {NoProc}]
    /\ abandoned \in [MutexObjects -> BOOLEAN]
    /\ mapping \in [Proc -> BOOLEAN]
    /\ view \in [Proc -> BOOLEAN]
    /\ lastError \in [Proc -> Errors]
    /\ locks \in [Proc -> 0 .. MaxLocks]
    /\ waitResult \in [Proc -> {"none", "WAIT_OBJECT_0", "WAIT_ABANDONED"}]
    /\ exitReason \in [Proc -> {"none", "check_error", "assert", "killed"}]

Init ==
    /\ pc = [p \in Proc |-> "start"]
    /\ handle = [p \in Proc |-> NoHandle]
    /\ owner = [o \in MutexObjects |-> NoProc]
    /\ abandoned = [o \in MutexObjects |-> FALSE]
    /\ mapping = [p \in Proc |-> FALSE]
    /\ view = [p \in Proc |-> FALSE]
    /\ lastError = [p \in Proc |-> "SUCCESS"]
    /\ locks = [p \in Proc |-> 0]
    /\ waitResult = [p \in Proc |-> "none"]
    /\ exitReason = [p \in Proc |-> "none"]

\* CheckForError(allow): the process goes on iff GetLastError() is
\* ERROR_SUCCESS or in allow; otherwise it logs, asserts and exit(1)s.
CheckForError(e, allow) == e \in {"SUCCESS"} \cup allow

\* The last-error values a successful call may leave: unchanged or cleared.
AfterSuccess(p) == {lastError[p], "SUCCESS"}

\* Process p terminates (exit(1), abort() or killed) while the mutex owner
\* function is own: the kernel closes its handles and views, and every mutex
\* it owns becomes abandoned.
Terminate(p, reason, own) ==
    /\ pc' = [pc EXCEPT ![p] = "exited"]
    /\ exitReason' = [exitReason EXCEPT ![p] = reason]
    /\ owner' = [o \in MutexObjects |-> IF own[o] = p THEN NoProc ELSE own[o]]
    /\ abandoned' = [o \in MutexObjects |-> abandoned[o] \/ own[o] = p]
    /\ handle' = [handle EXCEPT ![p] = NoHandle]
    /\ mapping' = [mapping EXCEPT ![p] = FALSE]
    /\ view' = [view EXCEPT ![p] = FALSE]

\* A live process holds a handle to mutex object o.
MutexExists(o) == \E q \in Proc : handle[q] = o

\* The last-error value CreateMutex and CreateFileMapping leave for a named
\* object: ERROR_ALREADY_EXISTS when it existed before, ERROR_SUCCESS when
\* the call created it.
CreateError(exists) == IF exists THEN "ALREADY_EXISTS" ELSE "SUCCESS"

\* Mutant: CreateMutex is called without the name: every process gets a
\* private mutex object.
CreateMutexUnnamed(p) ==
    /\ pc[p] = "start"
    /\ LET e == CreateError(FALSE) IN
        /\ lastError' = [lastError EXCEPT ![p] = e]
        /\ IF CheckForError(e, {"ALREADY_EXISTS"})
           THEN /\ pc' = [pc EXCEPT ![p] = "has_mutex"]
                /\ handle' = [handle EXCEPT ![p] = p]
                /\ owner' = [owner EXCEPT ![p] = NoProc]
                /\ abandoned' = [abandoned EXCEPT ![p] = FALSE]
                /\ UNCHANGED <<mapping, view, exitReason>>
           ELSE Terminate(p, "check_error", owner)
    /\ UNCHANGED <<locks, waitResult>>

\* PlatformMutexWin(name): CreateMutex(nullptr, false, name), then
\* CheckForError({ERROR_ALREADY_EXISTS}).  Opening an existing object sets
\* ERROR_ALREADY_EXISTS; creating it afresh gives an unowned mutex.
CreateMutex(p) ==
    /\ pc[p] = "start"
    /\ LET e == CreateError(MutexExists(NamedMutex)) IN
        /\ lastError' = [lastError EXCEPT ![p] = e]
        /\ IF CheckForError(e, {"ALREADY_EXISTS"})
           THEN /\ pc' = [pc EXCEPT ![p] = "has_mutex"]
                /\ handle' = [handle EXCEPT ![p] = NamedMutex]
                /\ IF MutexExists(NamedMutex)
                   THEN UNCHANGED <<owner, abandoned>>
                   ELSE /\ owner' = [owner EXCEPT ![NamedMutex] = NoProc]
                        /\ abandoned' = [abandoned EXCEPT ![NamedMutex] = FALSE]
                /\ UNCHANGED <<mapping, view, exitReason>>
           ELSE Terminate(p, "check_error", owner)
    /\ UNCHANGED <<locks, waitResult>>

\* PlatformSharedMemoryWin(name, capacity): CreateFileMapping, then
\* CheckForError({ERROR_ALREADY_EXISTS}); MapViewOfFile, then the same
\* check again.  MapViewOfFile succeeds, so the second check sees the first
\* value or ERROR_SUCCESS and passes whenever the first one did.
CreateSharedMemory(p) ==
    /\ pc[p] = "has_mutex"
    /\ LET e1 == CreateError(\E q \in Proc : mapping[q] \/ view[q]) IN
       \E e2 \in {e1, "SUCCESS"} :
        /\ lastError' = [lastError EXCEPT ![p] = e2]
        /\ IF CheckForError(e1, {"ALREADY_EXISTS"})
           THEN /\ pc' = [pc EXCEPT ![p] = "ready"]
                /\ mapping' = [mapping EXCEPT ![p] = TRUE]
                /\ view' = [view EXCEPT ![p] = TRUE]
                /\ UNCHANGED <<handle, owner, abandoned, exitReason>>
           ELSE Terminate(p, "check_error", owner)
    /\ UNCHANGED <<locks, waitResult>>

\* PlatformScopedMutexLockWin(raw_mutex): WaitForSingleObject(INFINITE)
\* returns once the mutex is free, WAIT_ABANDONED if its last owner died
\* owning it; then assert(result == WAIT_OBJECT_0) and
\* CheckForError({ERROR_NO_MORE_FILES, ERROR_ALREADY_EXISTS}).  Either way
\* the caller now owns the mutex, also when it then terminates.
Lock(p) ==
    /\ pc[p] = "ready"
    /\ locks[p] < MaxLocks
    /\ owner[handle[p]] = NoProc
    /\ LET o == handle[p]
           res == IF abandoned[o] THEN "WAIT_ABANDONED" ELSE "WAIT_OBJECT_0"
           own == [owner EXCEPT ![o] = p] IN
       /\ waitResult' = [waitResult EXCEPT ![p] = res]
       /\ locks' = [locks EXCEPT ![p] = @ + 1]
       /\ IF res = "WAIT_ABANDONED" /\ Debug
          THEN /\ Terminate(p, "assert", own)
               /\ UNCHANGED lastError
          ELSE \E e \in AfterSuccess(p) :
                 /\ lastError' = [lastError EXCEPT ![p] = e]
                 /\ IF CheckForError(e, {"NO_MORE_FILES", "ALREADY_EXISTS"})
                    THEN /\ pc' = [pc EXCEPT ![p] = "locked"]
                         /\ owner' = own
                         /\ abandoned' = [abandoned EXCEPT ![o] = FALSE]
                         /\ UNCHANGED <<handle, mapping, view, exitReason>>
                    ELSE Terminate(p, "check_error", own)

\* Mutant: the scoped lock's destructor does not call ReleaseMutex.
UnlockNoRelease(p) ==
    /\ pc[p] = "locked"
    /\ \E e \in AfterSuccess(p) :
        /\ lastError' = [lastError EXCEPT ![p] = e]
        /\ IF CheckForError(e, {"NO_MORE_FILES", "ALREADY_EXISTS"})
           THEN /\ pc' = [pc EXCEPT ![p] = "ready"]
                /\ UNCHANGED <<owner, abandoned, handle, mapping, view, exitReason>>
           ELSE Terminate(p, "check_error", owner)
    /\ UNCHANGED <<locks, waitResult>>

\* ~PlatformScopedMutexLockWin(): ReleaseMutex, then
\* CheckForError({ERROR_NO_MORE_FILES, ERROR_ALREADY_EXISTS}).
Unlock(p) ==
    /\ pc[p] = "locked"
    /\ LET own == [owner EXCEPT ![handle[p]] = NoProc] IN
       \E e \in AfterSuccess(p) :
        /\ lastError' = [lastError EXCEPT ![p] = e]
        /\ IF CheckForError(e, {"NO_MORE_FILES", "ALREADY_EXISTS"})
           THEN /\ pc' = [pc EXCEPT ![p] = "ready"]
                /\ owner' = own
                /\ UNCHANGED <<abandoned, handle, mapping, view, exitReason>>
           ELSE Terminate(p, "check_error", own)
    /\ UNCHANGED <<locks, waitResult>>

\* ~PlatformSharedMemoryWin(): UnmapViewOfFile(data), then
\* CheckForError({}).  shmem_ is never closed: the mapping handle stays.
DestroySharedMemory(p) ==
    /\ pc[p] = "ready"
    /\ \E e \in AfterSuccess(p) :
        /\ lastError' = [lastError EXCEPT ![p] = e]
        /\ IF CheckForError(e, {})
           THEN /\ pc' = [pc EXCEPT ![p] = "unmapped"]
                /\ view' = [view EXCEPT ![p] = FALSE]
                /\ UNCHANGED <<handle, owner, abandoned, mapping, exitReason>>
           ELSE Terminate(p, "check_error", owner)
    /\ UNCHANGED <<locks, waitResult>>

\* ~PlatformMutexWin(): CloseHandle(raw_mutex), then CheckForError({}),
\* then raw_mutex = INVALID_HANDLE_VALUE.
DestroyMutex(p) ==
    /\ pc[p] = "unmapped"
    /\ \E e \in AfterSuccess(p) :
        /\ lastError' = [lastError EXCEPT ![p] = e]
        /\ IF CheckForError(e, {})
           THEN /\ pc' = [pc EXCEPT ![p] = "done"]
                /\ handle' = [handle EXCEPT ![p] = NoHandle]
                /\ UNCHANGED <<owner, abandoned, mapping, view, exitReason>>
           ELSE Terminate(p, "check_error", owner)
    /\ UNCHANGED <<locks, waitResult>>

\* Some other Win32 call of the process fails (a cache file that does not
\* exist yet, say) and leaves its code in GetLastError().
OtherCall(p) ==
    /\ pc[p] # "exited"
    /\ lastError' = [lastError EXCEPT ![p] = "FILE_NOT_FOUND"]
    /\ UNCHANGED <<pc, handle, owner, abandoned, mapping, view, locks,
                   waitResult, exitReason>>

\* The process is killed, or crashes in code outside this layer.
Kill(p) ==
    /\ pc[p] \notin {"done", "exited"}
    /\ Terminate(p, "killed", owner)
    /\ UNCHANGED <<lastError, locks, waitResult>>

\* A process that has closed its objects ends normally.
Exit(p) ==
    /\ pc[p] = "done"
    /\ Terminate(p, "none", owner)
    /\ UNCHANGED <<lastError, locks, waitResult>>

\* Every process has ended.
Finished ==
    /\ \A p \in Proc : pc[p] = "exited"
    /\ UNCHANGED vars

Next ==
    \/ \E p \in Proc :
        \/ CreateMutex(p) \/ CreateSharedMemory(p)
        \/ Lock(p) \/ Unlock(p)
        \/ DestroySharedMemory(p) \/ DestroyMutex(p)
        \/ OtherCall(p) \/ Kill(p) \/ Exit(p)
    \/ Finished

Spec == Init /\ [][Next]_vars

-----------------------------------------------------------------------------
(* Properties *)

\* The named mutex does its job across processes, kills and abandonment
\* included: no two processes are inside a PlatformScopedMutexLockWin scope
\* at once.
MutualExclusion ==
    \A p, q \in Proc : p # q => ~(pc[p] = "locked" /\ pc[q] = "locked")

\* The kernel's view of each mutex matches the lock scopes of the code: a
\* process owns a mutex object exactly while it is inside a scoped lock on
\* its handle to it, and an abandoned mutex has no owner.
OwnershipMatchesScope ==
    \A o \in MutexObjects :
        /\ \A p \in Proc : owner[o] = p <=> (pc[p] = "locked" /\ handle[p] = o)
        /\ abandoned[o] => owner[o] = NoProc

\* CheckForError is meant to stop the process on a failed Win32 call; as
\* every call here succeeds, no process should ever leave through it.
NoSpuriousExit == \A p \in Proc : exitReason[p] # "check_error"

\* assert(result == WAIT_OBJECT_0) in PlatformScopedMutexLockWin: acquiring
\* the mutex never reports that its previous owner died owning it.
NeverAbandoned == \A p \in Proc : waitResult[p] # "WAIT_ABANDONED"
=============================================================================
