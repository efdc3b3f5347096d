------------------------- MODULE PlatformWinProofs -------------------------
(***************************************************************************)
(* Proofs about the Windows coordination layer: the kernel owner of the    *)
(* named mutex always matches the processes' lock scopes, kills and        *)
(* abandonment included, and hence the scoped locks exclude each other.    *)
(***************************************************************************)
EXTENDS PlatformWin, TLAPS

\* The phases in which a process holds its PlatformMutexWin handle.
HoldsHandle == {"has_mutex", "ready", "locked", "unmapped"}

\* A process holds the named mutex's handle exactly between its
\* PlatformMutexWin constructor and destructor.
HandleInv ==
    \A p \in Proc :
        handle[p] = IF pc[p] \in HoldsHandle THEN NamedMutex ELSE NoHandle

PInv == TypeOK /\ HandleInv /\ OwnershipMatchesScope

USE PlatformAssumption

WaitResults == {"none", "WAIT_OBJECT_0", "WAIT_ABANDONED"}
ExitReasons == {"none", "check_error", "assert", "killed"}

\* Termination keeps the invariant whenever the owner function it starts
\* from agrees with the kernel's for every other process and owns no
\* abandoned mutex for one of them.
LEMMA TerminatePInv ==
    ASSUME PInv, NEW p \in Proc, NEW reason \in ExitReasons,
           NEW own \in [MutexObjects -> Proc \cup {NoProc}],
           \A o \in MutexObjects, q \in Proc \ {p} : own[o] = q <=> owner[o] = q,
           \A o \in MutexObjects : abandoned[o] => own[o] \in {NoProc, p},
           Terminate(p, reason, own),
           lastError' \in [Proc -> Errors],
           locks' \in [Proc -> 0 .. MaxLocks],
           waitResult' \in [Proc -> WaitResults]
    PROVE  PInv'
<1>1. TypeOK'
  <2> USE DEF PInv, TypeOK, Terminate
  <2>1. pc' \in [Proc -> Phases]
    BY DEF Phases
  <2>2. exitReason' \in [Proc -> {"none", "check_error", "assert", "killed"}]
    BY DEF ExitReasons
  <2>3. owner' \in [MutexObjects -> Proc \cup {NoProc}]
    OBVIOUS
  <2>4. abandoned' \in [MutexObjects -> BOOLEAN]
    OBVIOUS
  <2>5. handle' \in [Proc -> MutexObjects \cup {NoHandle}]
    OBVIOUS
  <2>6. mapping' \in [Proc -> BOOLEAN] /\ view' \in [Proc -> BOOLEAN]
    OBVIOUS
  <2> QED
    BY <2>1, <2>2, <2>3, <2>4, <2>5, <2>6 DEF WaitResults
<1>2. HandleInv'
  BY DEF PInv, TypeOK, HandleInv, Terminate, HoldsHandle
<1>3. OwnershipMatchesScope'
  BY DEF PInv, TypeOK, OwnershipMatchesScope, Terminate
<1> QED
  BY <1>1, <1>2, <1>3 DEF PInv

LEMMA InitPInv == Init => PInv
<1> SUFFICES ASSUME Init PROVE PInv
  OBVIOUS
<1>1. TypeOK
  BY DEF Init, TypeOK, Phases, Errors
<1>2. HandleInv
  BY DEF Init, HandleInv, HoldsHandle
<1>3. OwnershipMatchesScope
  BY DEF Init, OwnershipMatchesScope
<1> QED
  BY <1>1, <1>2, <1>3 DEF PInv

\* What a successful call leaves in GetLastError() is an error code.
LEMMA AfterSuccessType ==
    ASSUME TypeOK, NEW p \in Proc
    PROVE  AfterSuccess(p) \subseteq Errors
  BY DEF TypeOK, AfterSuccess, Errors

\* Terminating from the kernel's own owner function keeps the invariant.
LEMMA TerminateOwnPInv ==
    ASSUME PInv, NEW p \in Proc, NEW reason \in ExitReasons,
           Terminate(p, reason, owner),
           lastError' \in [Proc -> Errors],
           UNCHANGED <<locks, waitResult>>
    PROVE  PInv'
<1>1. owner \in [MutexObjects -> Proc \cup {NoProc}]
  BY DEF PInv, TypeOK
<1>2. \A o \in MutexObjects : abandoned[o] => owner[o] \in {NoProc, p}
  BY DEF PInv, OwnershipMatchesScope
<1>3. locks' \in [Proc -> 0 .. MaxLocks] /\ waitResult' \in [Proc -> WaitResults]
  BY DEF PInv, TypeOK, WaitResults
<1> QED
  BY <1>1, <1>2, <1>3, TerminatePInv

LEMMA CreateMutexPInv ==
    ASSUME PInv, NEW p \in Proc, CreateMutex(p)
    PROVE  PInv'
<1> DEFINE ex == MutexExists(NamedMutex)
           e == CreateError(ex)
<1>0. /\ pc[p] = "start"
      /\ UNCHANGED <<locks, waitResult>>
      /\ e \in Errors
      /\ lastError' = [lastError EXCEPT ![p] = e]
      /\ lastError' \in [Proc -> Errors]
      /\ IF CheckForError(e, {"ALREADY_EXISTS"})
         THEN /\ pc' = [pc EXCEPT ![p] = "has_mutex"]
              /\ handle' = [handle EXCEPT ![p] = NamedMutex]
              /\ IF ex
                 THEN UNCHANGED <<owner, abandoned>>
                 ELSE /\ owner' = [owner EXCEPT ![NamedMutex] = NoProc]
                      /\ abandoned' = [abandoned EXCEPT ![NamedMutex] = FALSE]
              /\ UNCHANGED <<mapping, view, exitReason>>
         ELSE Terminate(p, "check_error", owner)
  BY DEF CreateMutex, CreateError, PInv, TypeOK, Errors
<1>1. CASE CheckForError(e, {"ALREADY_EXISTS"})
  <2>1. /\ pc' = [pc EXCEPT ![p] = "has_mutex"]
        /\ handle' = [handle EXCEPT ![p] = NamedMutex]
        /\ UNCHANGED <<mapping, view, exitReason>>
    BY <1>0, <1>1
  <2>2. \A o \in MutexObjects : owner[o] # p
    BY <1>0 DEF PInv, OwnershipMatchesScope
  <2>3. CASE ex
    <3>1. UNCHANGED <<owner, abandoned>>
      BY <1>0, <1>1, <2>3
    <3>2. TypeOK'
      BY <1>0, <2>1, <3>1 DEF PInv, TypeOK, Phases, MutexObjects
    <3>3. HandleInv'
      BY <1>0, <2>1 DEF PInv, TypeOK, HandleInv, HoldsHandle
    <3>4. OwnershipMatchesScope'
      BY <1>0, <2>1, <2>2, <3>1 DEF PInv, TypeOK, OwnershipMatchesScope
    <3> QED
      BY <3>2, <3>3, <3>4 DEF PInv
  <2>4. CASE ~ex
    <3>1. /\ owner' = [owner EXCEPT ![NamedMutex] = NoProc]
          /\ abandoned' = [abandoned EXCEPT ![NamedMutex] = FALSE]
      BY <1>0, <1>1, <2>4
    <3>2. \A q \in Proc : handle[q] # NamedMutex
      BY <2>4 DEF MutexExists
    <3>3. TypeOK'
      BY <1>0, <2>1, <3>1 DEF PInv, TypeOK, Phases, MutexObjects
    <3>4. HandleInv'
      BY <1>0, <2>1 DEF PInv, TypeOK, HandleInv, HoldsHandle
    <3>5. OwnershipMatchesScope'
      BY <1>0, <2>1, <2>2, <3>1, <3>2
         DEF PInv, TypeOK, OwnershipMatchesScope, MutexObjects
    <3> QED
      BY <3>3, <3>4, <3>5 DEF PInv
  <2> QED
    BY <2>3, <2>4
<1>2. CASE ~CheckForError(e, {"ALREADY_EXISTS"})
  BY <1>0, <1>2, TerminateOwnPInv DEF ExitReasons
<1> QED
  BY <1>1, <1>2

LEMMA CreateSharedMemoryPInv ==
    ASSUME PInv, NEW p \in Proc, CreateSharedMemory(p)
    PROVE  PInv'
<1> DEFINE ex == \E q \in Proc : mapping[q] \/ view[q]
           e1 == CreateError(ex)
<1> PICK e2 \in {e1, "SUCCESS"} :
        /\ lastError' = [lastError EXCEPT ![p] = e2]
        /\ IF CheckForError(e1, {"ALREADY_EXISTS"})
           THEN /\ pc' = [pc EXCEPT ![p] = "ready"]
                /\ mapping' = [mapping EXCEPT ![p] = TRUE]
                /\ view' = [view EXCEPT ![p] = TRUE]
                /\ UNCHANGED <<handle, owner, abandoned, exitReason>>
           ELSE Terminate(p, "check_error", owner)
  BY DEF CreateSharedMemory
<1>0. /\ pc[p] = "has_mutex"
      /\ UNCHANGED <<locks, waitResult>>
      /\ e2 \in Errors
      /\ lastError' \in [Proc -> Errors]
  BY DEF CreateSharedMemory, CreateError, PInv, TypeOK, Errors
<1>1. CASE CheckForError(e1, {"ALREADY_EXISTS"})
  <2>1. /\ pc' = [pc EXCEPT ![p] = "ready"]
        /\ mapping' = [mapping EXCEPT ![p] = TRUE]
        /\ view' = [view EXCEPT ![p] = TRUE]
        /\ UNCHANGED <<handle, owner, abandoned, exitReason>>
    BY <1>1
  <2>2. \A o \in MutexObjects : owner[o] # p
    BY <1>0 DEF PInv, OwnershipMatchesScope
  <2>3. TypeOK'
    BY <1>0, <2>1 DEF PInv, TypeOK, Phases
  <2>4. HandleInv'
    BY <1>0, <2>1 DEF PInv, TypeOK, HandleInv, HoldsHandle
  <2>5. OwnershipMatchesScope'
    BY <1>0, <2>1, <2>2 DEF PInv, TypeOK, OwnershipMatchesScope
  <2> QED
    BY <2>3, <2>4, <2>5 DEF PInv
<1>2. CASE ~CheckForError(e1, {"ALREADY_EXISTS"})
  BY <1>0, <1>2, TerminateOwnPInv DEF ExitReasons
<1> QED
  BY <1>1, <1>2

LEMMA DestroySharedMemoryPInv ==
    ASSUME PInv, NEW p \in Proc, DestroySharedMemory(p)
    PROVE  PInv'
<1> PICK e \in AfterSuccess(p) :
        /\ lastError' = [lastError EXCEPT ![p] = e]
        /\ IF CheckForError(e, {})
           THEN /\ pc' = [pc EXCEPT ![p] = "unmapped"]
                /\ view' = [view EXCEPT ![p] = FALSE]
                /\ UNCHANGED <<handle, owner, abandoned, mapping, exitReason>>
           ELSE Terminate(p, "check_error", owner)
  BY DEF DestroySharedMemory
<1>0. /\ pc[p] = "ready"
      /\ UNCHANGED <<locks, waitResult>>
      /\ e \in Errors
      /\ lastError' \in [Proc -> Errors]
  BY AfterSuccessType DEF DestroySharedMemory, PInv, TypeOK
<1>1. CASE CheckForError(e, {})
  <2>1. /\ pc' = [pc EXCEPT ![p] = "unmapped"]
        /\ view' = [view EXCEPT ![p] = FALSE]
        /\ UNCHANGED <<handle, owner, abandoned, mapping, exitReason>>
    BY <1>1
  <2>2. \A o \in MutexObjects : owner[o] # p
    BY <1>0 DEF PInv, OwnershipMatchesScope
  <2>3. TypeOK'
    BY <1>0, <2>1 DEF PInv, TypeOK, Phases
  <2>4. HandleInv'
    BY <1>0, <2>1 DEF PInv, TypeOK, HandleInv, HoldsHandle
  <2>5. OwnershipMatchesScope'
    BY <1>0, <2>1, <2>2 DEF PInv, TypeOK, OwnershipMatchesScope
  <2> QED
    BY <2>3, <2>4, <2>5 DEF PInv
<1>2. CASE ~CheckForError(e, {})
  BY <1>0, <1>2, TerminateOwnPInv DEF ExitReasons
<1> QED
  BY <1>1, <1>2

LEMMA DestroyMutexPInv ==
    ASSUME PInv, NEW p \in Proc, DestroyMutex(p)
    PROVE  PInv'
<1> PICK e \in AfterSuccess(p) :
        /\ lastError' = [lastError EXCEPT ![p] = e]
        /\ IF CheckForError(e, {})
           THEN /\ pc' = [pc EXCEPT ![p] = "done"]
                /\ handle' = [handle EXCEPT ![p] = NoHandle]
                /\ UNCHANGED <<owner, abandoned, mapping, view, exitReason>>
           ELSE Terminate(p, "check_error", owner)
  BY DEF DestroyMutex
<1>0. /\ pc[p] = "unmapped"
      /\ UNCHANGED <<locks, waitResult>>
      /\ e \in Errors
      /\ lastError' \in [Proc -> Errors]
  BY AfterSuccessType DEF DestroyMutex, PInv, TypeOK
<1>1. CASE CheckForError(e, {})
  <2>1. /\ pc' = [pc EXCEPT ![p] = "done"]
        /\ handle' = [handle EXCEPT ![p] = NoHandle]
        /\ UNCHANGED <<owner, abandoned, mapping, view, exitReason>>
    BY <1>1
  <2>2. \A o \in MutexObjects : owner[o] # p
    BY <1>0 DEF PInv, OwnershipMatchesScope
  <2>3. TypeOK'
    BY <1>0, <2>1 DEF PInv, TypeOK, Phases
  <2>4. HandleInv'
    BY <1>0, <2>1 DEF PInv, TypeOK, HandleInv, HoldsHandle
  <2>5. OwnershipMatchesScope'
    BY <1>0, <2>1, <2>2 DEF PInv, TypeOK, OwnershipMatchesScope
  <2> QED
    BY <2>3, <2>4, <2>5 DEF PInv
<1>2. CASE ~CheckForError(e, {})
  BY <1>0, <1>2, TerminateOwnPInv DEF ExitReasons
<1> QED
  BY <1>1, <1>2

LEMMA UnlockPInv ==
    ASSUME PInv, NEW p \in Proc, Unlock(p)
    PROVE  PInv'
<1> DEFINE own == [owner EXCEPT ![handle[p]] = NoProc]
<1> PICK e \in AfterSuccess(p) :
        /\ lastError' = [lastError EXCEPT ![p] = e]
        /\ IF CheckForError(e, {"NO_MORE_FILES", "ALREADY_EXISTS"})
           THEN /\ pc' = [pc EXCEPT ![p] = "ready"]
                /\ owner' = own
                /\ UNCHANGED <<abandoned, handle, mapping, view, exitReason>>
           ELSE Terminate(p, "check_error", own)
  BY DEF Unlock
<1>0. /\ pc[p] = "locked"
      /\ handle[p] = NamedMutex
      /\ owner[NamedMutex] = p
      /\ ~abandoned[NamedMutex]
      /\ UNCHANGED <<locks, waitResult>>
      /\ e \in Errors
      /\ lastError' \in [Proc -> Errors]
  <2>1. pc[p] = "locked" /\ UNCHANGED <<locks, waitResult>>
    BY DEF Unlock
  <2>2. handle[p] = NamedMutex
    BY <2>1 DEF PInv, HandleInv, HoldsHandle
  <2>3. owner[NamedMutex] = p
    BY <2>1, <2>2 DEF PInv, OwnershipMatchesScope, MutexObjects
  <2>4. ~abandoned[NamedMutex]
    BY <2>3 DEF PInv, OwnershipMatchesScope, MutexObjects
  <2> QED
    BY <2>1, <2>2, <2>3, <2>4, AfterSuccessType DEF PInv, TypeOK
<1>1. own = [owner EXCEPT ![NamedMutex] = NoProc]
      /\ own \in [MutexObjects -> Proc \cup {NoProc}]
  BY <1>0 DEF PInv, TypeOK, MutexObjects
<1>2. \A o \in MutexObjects : o # NamedMutex => owner[o] # p
  BY <1>0 DEF PInv, OwnershipMatchesScope
<1>3. CASE CheckForError(e, {"NO_MORE_FILES", "ALREADY_EXISTS"})
  <2>1. /\ pc' = [pc EXCEPT ![p] = "ready"]
        /\ owner' = own
        /\ UNCHANGED <<abandoned, handle, mapping, view, exitReason>>
    BY <1>3
  <2>3. TypeOK'
    BY <1>0, <1>1, <2>1 DEF PInv, TypeOK, Phases
  <2>4. HandleInv'
    BY <1>0, <2>1 DEF PInv, TypeOK, HandleInv, HoldsHandle
  <2>5. OwnershipMatchesScope'
    BY <1>0, <1>1, <1>2, <2>1 DEF PInv, TypeOK, OwnershipMatchesScope
  <2> QED
    BY <2>3, <2>4, <2>5 DEF PInv
<1>4. CASE ~CheckForError(e, {"NO_MORE_FILES", "ALREADY_EXISTS"})
  <2>1. \A o \in MutexObjects, q \in Proc \ {p} : own[o] = q <=> owner[o] = q
    BY <1>0, <1>1 DEF PInv, TypeOK
  <2>2. \A o \in MutexObjects : abandoned[o] => own[o] \in {NoProc, p}
    BY <1>1 DEF PInv, OwnershipMatchesScope
  <2>3. locks' \in [Proc -> 0 .. MaxLocks] /\ waitResult' \in [Proc -> WaitResults]
    BY <1>0 DEF PInv, TypeOK, WaitResults
  <2>4. Terminate(p, "check_error", own)
    BY <1>4
  <2>5. lastError' \in [Proc -> Errors] /\ "check_error" \in ExitReasons
    BY <1>0 DEF ExitReasons
  <2> QED
    BY <1>1, <2>1, <2>2, <2>3, <2>4, <2>5, TerminatePInv, Zenon
<1> QED
  BY <1>3, <1>4

LEMMA LockPInv ==
    ASSUME PInv, NEW p \in Proc, Lock(p)
    PROVE  PInv'
<1> DEFINE o == handle[p]
           res == IF abandoned[o] THEN "WAIT_ABANDONED" ELSE "WAIT_OBJECT_0"
           own == [owner EXCEPT ![o] = p]
<1> USE DEF o, res
<1>0. /\ pc[p] = "ready"
      /\ locks[p] < MaxLocks
      /\ o = NamedMutex
      /\ owner[o] = NoProc
      /\ waitResult' = [waitResult EXCEPT ![p] = res]
      /\ locks' = [locks EXCEPT ![p] = @ + 1]
  <2>1. pc[p] = "ready"
    BY DEF Lock
  <2> QED
    BY <2>1 DEF Lock, PInv, HandleInv, HoldsHandle
<1>1. /\ own = [owner EXCEPT ![NamedMutex] = p]
      /\ own \in [MutexObjects -> Proc \cup {NoProc}]
      /\ \A q \in Proc : ~(pc[q] = "locked" /\ handle[q] = NamedMutex)
      /\ \A m \in MutexObjects : owner[m] # p
  BY <1>0 DEF own, PInv, TypeOK, OwnershipMatchesScope, MutexObjects
<1>2. /\ locks' \in [Proc -> 0 .. MaxLocks]
      /\ waitResult' \in [Proc -> WaitResults]
  BY <1>0 DEF PInv, TypeOK, WaitResults
<1>3. \A m \in MutexObjects, q \in Proc \ {p} : own[m] = q <=> owner[m] = q
  BY <1>0, <1>1 DEF PInv, TypeOK
<1>4. \A m \in MutexObjects : abandoned[m] => own[m] \in {NoProc, p}
  BY <1>0, <1>1 DEF PInv, OwnershipMatchesScope
<1>5. CASE res = "WAIT_ABANDONED" /\ Debug
  <2>1. Terminate(p, "assert", own) /\ UNCHANGED lastError
    BY <1>5 DEF Lock
  <2>2. lastError' \in [Proc -> Errors]
    BY <2>1 DEF PInv, TypeOK
  <2>3. "assert" \in ExitReasons
    BY DEF ExitReasons
  <2>4. Terminate(p, "assert", own)
    BY <2>1
  <2> QED
    BY <1>1, <1>2, <1>3, <1>4, <2>2, <2>3, <2>4, TerminatePInv, Zenon
<1>6. CASE ~(res = "WAIT_ABANDONED" /\ Debug)
  <2> PICK e \in AfterSuccess(p) :
         /\ lastError' = [lastError EXCEPT ![p] = e]
         /\ IF CheckForError(e, {"NO_MORE_FILES", "ALREADY_EXISTS"})
            THEN /\ pc' = [pc EXCEPT ![p] = "locked"]
                 /\ owner' = own
                 /\ abandoned' = [abandoned EXCEPT ![o] = FALSE]
                 /\ UNCHANGED <<handle, mapping, view, exitReason>>
            ELSE Terminate(p, "check_error", own)
    BY <1>6 DEF Lock
  <2>0. lastError' \in [Proc -> Errors]
    BY AfterSuccessType DEF PInv, TypeOK
  <2>1. CASE CheckForError(e, {"NO_MORE_FILES", "ALREADY_EXISTS"})
    <3>1. /\ pc' = [pc EXCEPT ![p] = "locked"]
          /\ owner' = own
          /\ abandoned' = [abandoned EXCEPT ![NamedMutex] = FALSE]
          /\ UNCHANGED <<handle, mapping, view, exitReason>>
      BY <2>1, <1>0
    <3>2. TypeOK'
      <4>1. pc' \in [Proc -> Phases]
        BY <3>1 DEF PInv, TypeOK, Phases
      <4>2. abandoned' \in [MutexObjects -> BOOLEAN]
        BY <3>1 DEF PInv, TypeOK, MutexObjects
      <4>3. owner' \in [MutexObjects -> Proc \cup {NoProc}]
        BY <3>1, <1>1
      <4> QED
        BY <1>2, <2>0, <3>1, <4>1, <4>2, <4>3 DEF PInv, TypeOK, WaitResults
    <3>3. HandleInv'
      BY <1>0, <3>1 DEF PInv, TypeOK, HandleInv, HoldsHandle
    <3>4. OwnershipMatchesScope'
      BY <1>0, <1>1, <3>1 DEF PInv, TypeOK, OwnershipMatchesScope
    <3> QED
      BY <3>2, <3>3, <3>4 DEF PInv
  <2>2. CASE ~CheckForError(e, {"NO_MORE_FILES", "ALREADY_EXISTS"})
    <3>1. Terminate(p, "check_error", own)
      BY <2>2
    <3>2. "check_error" \in ExitReasons
      BY DEF ExitReasons
    <3> QED
      BY <3>1, <3>2, <2>0, <1>1, <1>2, <1>3, <1>4, TerminatePInv, Zenon
  <2> QED
    BY <2>1, <2>2
<1> QED
  BY <1>5, <1>6

LEMMA OtherCallPInv ==
    ASSUME PInv, NEW p \in Proc, OtherCall(p)
    PROVE  PInv'
<1>1. TypeOK'
  BY DEF OtherCall, PInv, TypeOK, Errors
<1>2. HandleInv' /\ OwnershipMatchesScope'
  BY DEF OtherCall, PInv, HandleInv, OwnershipMatchesScope
<1> QED
  BY <1>1, <1>2 DEF PInv

LEMMA KillPInv ==
    ASSUME PInv, NEW p \in Proc, Kill(p)
    PROVE  PInv'
<1>1. "killed" \in ExitReasons /\ lastError' \in [Proc -> Errors]
  BY DEF Kill, ExitReasons, PInv, TypeOK
<1> QED
  BY <1>1, TerminateOwnPInv DEF Kill

LEMMA ExitPInv ==
    ASSUME PInv, NEW p \in Proc, Exit(p)
    PROVE  PInv'
<1>1. "none" \in ExitReasons /\ lastError' \in [Proc -> Errors]
  BY DEF Exit, ExitReasons, PInv, TypeOK
<1> QED
  BY <1>1, TerminateOwnPInv DEF Exit

LEMMA StutterPInv ==
    ASSUME PInv, UNCHANGED vars
    PROVE  PInv'
BY DEF vars, PInv, TypeOK, HandleInv, OwnershipMatchesScope

LEMMA NextPInv ==
    ASSUME PInv, [Next]_vars
    PROVE  PInv'
<1>1. CASE \E p \in Proc :
        \/ CreateMutex(p) \/ CreateSharedMemory(p)
        \/ Lock(p) \/ Unlock(p)
        \/ DestroySharedMemory(p) \/ DestroyMutex(p)
        \/ OtherCall(p) \/ Kill(p) \/ Exit(p)
  BY <1>1, CreateMutexPInv, CreateSharedMemoryPInv, LockPInv, UnlockPInv,
     DestroySharedMemoryPInv, DestroyMutexPInv, OtherCallPInv, KillPInv,
     ExitPInv
<1>2. CASE Finished
  BY <1>2, StutterPInv DEF Finished
<1>3. CASE UNCHANGED vars
  BY <1>3, StutterPInv
<1> QED
  BY <1>1, <1>2, <1>3 DEF Next

\* Spec => []PInv: the inductive invariant holds in every reachable state.
LEMMA PInvInvariant == Spec => []PInv
<1>1. Init => PInv
  BY InitPInv
<1>2. PInv /\ [Next]_vars => PInv'
  BY NextPInv
<1> QED
  BY <1>1, <1>2, PTL DEF Spec

-----------------------------------------------------------------------------

\* For any number of processes: the kernel owner of each mutex is exactly
\* the process inside a PlatformScopedMutexLockWin scope on it, also after
\* processes are killed holding it (ReleaseMutex on unlock, abandonment
\* on termination), and an abandoned mutex has no owner.
THEOREM OwnershipMatchesScopeHolds == Spec => []OwnershipMatchesScope
<1>1. PInv => OwnershipMatchesScope
  BY DEF PInv
<1> QED
  BY <1>1, PInvInvariant, PTL

\* For any number of processes: no two are inside a scoped lock on the
\* named mutex "cquery" at the same time, whichever of them was killed or
\* failed a CheckForError before.
THEOREM MutualExclusionHolds == Spec => []MutualExclusion
<1>1. PInv => MutualExclusion
  <2> SUFFICES ASSUME PInv, NEW p \in Proc, NEW q \in Proc, p # q,
                      pc[p] = "locked", pc[q] = "locked"
               PROVE  FALSE
    BY DEF MutualExclusion
  <2>1. handle[p] = NamedMutex /\ handle[q] = NamedMutex
    BY DEF PInv, HandleInv, HoldsHandle
  <2>2. owner[NamedMutex] = p /\ owner[NamedMutex] = q
    BY <2>1 DEF PInv, OwnershipMatchesScope, MutexObjects
  <2> QED
    BY <2>2
<1> QED
  BY <1>1, PInvInvariant, PTL
=============================================================================
