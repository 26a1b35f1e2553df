---------------------------- MODULE DriveIOProofs ----------------------------
(***************************************************************************)
(* Theorems about DriveIO, for every number of retries and polls, every    *)
(* length of a transfer and every combination of faults.                   *)
(***************************************************************************)
EXTENDS DriveIO, TLAPS

LEMMA DriveInitially == Init => DriveInv
BY DriveAssumption DEF Init, DriveInv, TypeOK, Unlimited, DriveAssumption

LEMMA DriveStep == DriveInv /\ [Next]_vars => DriveInv'
<1> SUFFICES ASSUME DriveInv, [Next]_vars PROVE DriveInv'
  OBVIOUS
<1> USE DEF DriveInv, TypeOK
<1>0. /\ MAX_RETRIES \in Nat \ {0} /\ wait_busy_timeout_count \in Nat
      /\ 0 < MAX_RETRIES /\ 0 <= wait_busy_timeout_count
  BY DriveAssumption DEF DriveAssumption
<1>1. ASSUME NEW data \in Images, NEW f \in {"read", "write"}, StartTransfer(f, data)
      PROVE  DriveInv'
  BY <1>0, <1>1 DEF StartTransfer, WaitBusy
<1>2. CASE StartSync
  BY <1>0, <1>2 DEF StartSync, WaitBusy
<1>3. CASE PollBusy
  <2>1. CASE Unlimited
    BY <1>3, <2>1 DEF PollBusy
  <2>2. CASE ~Unlimited
    BY <1>0, <1>3, <2>2 DEF PollBusy, MayPollAgain
  <2>3. QED
    BY <2>1, <2>2
<1>4. CASE WaitedToAttempt
  <2>1. pc = "poll" /\ after = "attempt" /\ call \in {"read", "write"}
    BY <1>4 DEF WaitedToAttempt, WaitEnds
  <2>2. CASE Return("error")
    BY <1>4, <2>1, <2>2 DEF WaitedToAttempt, Return
  <2>3. CASE pc' = "attempt" /\ UNCHANGED <<call, answer>>
    BY <1>4, <2>1, <2>3 DEF WaitedToAttempt
  <2>4. QED
    BY <1>4, <2>2, <2>3 DEF WaitedToAttempt
<1>5. CASE WaitedInReset
  <2>1. pc = "poll" /\ after = "reset" /\ call \in {"read", "write"}
    BY <1>5 DEF WaitedInReset, WaitEnds
  <2>2. CASE WaitBusy("reread")
    BY <1>0, <1>5, <2>1, <2>2 DEF WaitedInReset, WaitBusy
  <2>3. CASE pc' = "test" /\ UNCHANGED <<after, count>>
    <3>1. ret = "short"
      BY <2>1
    <3>2. QED
      BY <1>5, <2>1, <2>3, <3>1 DEF WaitedInReset
  <2>4. QED
    BY <1>5, <2>2, <2>3 DEF WaitedInReset
<1>6. CASE WaitedToReread
  <2>1. pc = "poll" /\ after = "reread" /\ call \in {"read", "write"}
    BY <1>6 DEF WaitedToReread, WaitEnds
  <2>2. CASE Return("error")
    BY <1>6, <2>1, <2>2 DEF WaitedToReread, Return
  <2>3. CASE pc' = "test" /\ UNCHANGED <<call, answer>>
    <3>1. ret = "short"
      BY <2>1
    <3>2. QED
      BY <1>6, <2>1, <2>3, <3>1 DEF WaitedToReread
  <2>4. QED
    BY <1>6, <2>2, <2>3 DEF WaitedToReread
<1>7. CASE WaitedToSync
  BY <1>7 DEF WaitedToSync, WaitEnds, Return
<1>8. CASE Write
  BY <1>8 DEF Write
<1>9. CASE Read
  BY <1>9 DEF Read
<1>10. CASE Short
  BY <1>0, <1>10 DEF Short, WaitBusy
<1>11. CASE Test
  BY <1>0, <1>11 DEF Test, Return, WaitBusy
<1>12. CASE BecomesReady \/ OthersUse
  BY <1>12 DEF BecomesReady, OthersUse, driver
<1>13. CASE UNCHANGED vars
  BY <1>13 DEF vars, driver
<1>14. QED
  BY <1>1, <1>2, <1>3, <1>4, <1>5, <1>6, <1>7, <1>8, <1>9, <1>10, <1>11,
     <1>12, <1>13 DEF Next, Wait, Transfer

(* In every reachable state, whatever the drive does: the retries and the  *)
(* polls are within their limits, and a transfer that was full is done.    *)
THEOREM DriveInvariant == Spec => []DriveInv
  BY DriveInitially, DriveStep, PTL DEF Spec

LEMMA ServiceInitially == Init => Disk!ServiceInit
BY DEF Init, Disk!ServiceInit, Images, Disk!Images

LEMMA ServiceStep ==
    DriveInv /\ [Next]_vars => [Disk!ServiceNext]_(Disk!serviceVars)
<1> SUFFICES ASSUME DriveInv, [Next]_vars
             PROVE  Disk!ServiceNext \/ UNCHANGED Disk!serviceVars
  OBVIOUS
<1> USE DEF DriveInv, TypeOK, Images, Disk!Images
<1>1. ASSUME NEW data \in Images, NEW f \in {"read", "write"}, StartTransfer(f, data)
      PROVE  Disk!Call
  BY <1>1 DEF StartTransfer, Disk!Call
<1>2. CASE StartSync
  BY <1>2 DEF StartSync, Disk!ServiceNext, Disk!Call
<1>3. CASE PollBusy \/ WaitedInReset \/ BecomesReady \/ OthersUse \/ UNCHANGED vars
  BY <1>3 DEF PollBusy, WaitedInReset, BecomesReady, OthersUse, vars,
              Disk!serviceVars
<1>4. CASE WaitedToAttempt \/ WaitedToReread
  <2>1. \/ UNCHANGED <<medium, buffer, call, answer>>
        \/ Return("error") /\ UNCHANGED <<medium, buffer>>
    BY <1>4 DEF WaitedToAttempt, WaitedToReread
  <2>2. call # "none"
    BY <1>4 DEF WaitedToAttempt, WaitedToReread, WaitEnds
  <2>3. QED
    BY <2>1, <2>2 DEF Return, Disk!ServiceNext, Disk!Answer, Disk!serviceVars
<1>5. CASE WaitedToSync
  BY <1>5 DEF WaitedToSync, WaitEnds, Return, Disk!ServiceNext, Disk!Answer
<1>6. CASE Write
  BY <1>6 DEF Write, Disk!ServiceNext, Disk!Take
<1>7. CASE Read
  BY <1>7 DEF Read, Disk!ServiceNext, Disk!Fill
<1>8. CASE Short
  BY <1>8 DEF Short, Disk!ServiceNext, Disk!Take, Disk!Fill
<1>9. CASE Test
  <2>1. pc = "test" /\ call # "none" /\ UNCHANGED <<medium, buffer>>
    BY <1>9 DEF Test
  <2>2. retries + 1 >= MAX_RETRIES => retries + 1 = MAX_RETRIES
    BY <2>1, DriveAssumption DEF DriveAssumption
  <2>3. \/ Return("error")
        \/ Return("ok") /\ buffer = medium
        \/ UNCHANGED <<call, answer>>
    BY <1>9, <2>1, <2>2 DEF Test
  <2>4. QED
    BY <2>1, <2>3 DEF Return, Disk!ServiceNext, Disk!Answer, Disk!serviceVars
<1>10. QED
  BY <1>1, <1>2, <1>3, <1>4, <1>5, <1>6, <1>7, <1>8, <1>9
  DEF Next, Wait, Transfer, Disk!ServiceNext

(* The disk functions implement the service ff.c counts on: through any    *)
(* short transfers, resets, retries and time-outs, an answer "ok" means    *)
(* that the whole transfer was done.                                       *)
THEOREM DriveImplementsService == Spec => Service
  BY ServiceInitially, ServiceStep, DriveInvariant, PTL
     DEF Spec, Service, Disk!ServiceSpec


-----------------------------------------------------------------------------
(* What a poll that fails, or a limit on the polls, takes away.            *)

LEMMA WaitedForReady ==
    ASSUME "ioctl" \notin Faults, TypeOK, WaitEnds, ~Expired
    PROVE  drive = "ready"
<1>1. drive = "ready" \/ ~MayPollAgain
  BY DEF WaitEnds
<1>2. ~(count < wait_busy_timeout_count) => count >= wait_busy_timeout_count
  BY DriveAssumption DEF DriveAssumption, TypeOK
<1>3. QED
  BY <1>1, <1>2 DEF MayPollAgain, Expired

(* With polls that do not fail, every transfer, first or repeated, is      *)
(* tried on a drive just found ready, whatever the limit: the run          *)
(* drive_poll_error needs its failed poll.                                 *)
THEOREM ReadyUnlessPollFails ==
    ASSUME "ioctl" \notin Faults PROVE Spec => AttemptWhenReady
<1>1. DriveInv /\ [Next]_vars
        => [pc = "poll" /\ pc' = "attempt" => drive = "ready"]_vars
  <2> SUFFICES ASSUME DriveInv, Next, pc = "poll", pc' = "attempt" PROVE drive = "ready"
    OBVIOUS
  <2>1. WaitedToAttempt /\ ~Expired
    BY DEF Next, StartTransfer, StartSync, Wait, PollBusy, WaitedToAttempt,
           WaitedInReset, WaitedToReread, WaitedToSync, WaitBusy, Return,
           Transfer, Write, Read, Short, Test, BecomesReady, OthersUse, driver
  <2>2. QED
    BY <2>1, WaitedForReady DEF WaitedToAttempt, DriveInv
<1>2. QED
  BY <1>1, DriveInvariant, PTL DEF Spec, AttemptWhenReady

(* With polls that do not fail and no limit on them, CTRL_SYNC returns only *)
(* when the drive has nothing pending: what sync_fs asks it for.           *)
THEOREM SyncWaitsWithoutLimit ==
    ASSUME "ioctl" \notin Faults, Unlimited PROVE Spec => SyncCompletes
<1>1. DriveInv /\ [Next]_vars
        => [call = "sync" /\ pc' = "idle" => drive = "ready"]_vars
  <2> SUFFICES ASSUME DriveInv, Next, call = "sync", pc' = "idle", vars' # vars
               PROVE drive = "ready"
    OBVIOUS
  <2>1. pc = "poll" /\ after = "synced"
    BY DEF DriveInv, TypeOK
  <2>2. pc # pc'
    BY <2>1
  <2>3. WaitedToSync
    BY <2>1, <2>2
    DEF Next, StartTransfer, StartSync, Wait, PollBusy, WaitedToAttempt,
        WaitedInReset, WaitedToReread, WaitBusy, Return,
        Transfer, Write, Read, Short, Test, BecomesReady, OthersUse, driver
  <2>4. QED
    BY <2>3, WaitedForReady DEF WaitedToSync, Expired, DriveInv
<1>2. QED
  BY <1>1, DriveInvariant, PTL DEF Spec, SyncCompletes

=============================================================================
