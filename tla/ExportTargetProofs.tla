------------------------- MODULE ExportTargetProofs -------------------------
(***************************************************************************)
(* The properties of ExportTarget, for any number of exports to one name,  *)
(* any reports and any number of failures and disturbances.                *)
(*                                                                         *)
(* Inv strengthens them with what each step of write_history_export leaves *)
(* behind for the next one.                                                *)
(***************************************************************************)
EXTENDS ExportTarget, TLAPS

BeforeLink == {"start", "made", "write", "sync", "recheck", "gate", "link"}
AfterLink  == {"verify", "cleanup", "unlink", "dirsync", "outcome"}

\* The gate and the link agree: a link is behind a gate that is held or closed.
Gated(e) ==
  /\ pc[e] \in BeforeLink => linked[e] = None
  /\ (linked[e] # None /\ pc[e] # "verify") => gate[e] = "committed"
  /\ (gate[e] = "committed" \/ GateHeld(e)) => ~cancelled[e]

\* What has been written and synced when the link is made.
Whole(e) ==
  /\ pc[e] \in ({"sync", "recheck", "gate", "link"} \cup AfterLink) => written[e] = Records
  /\ pc[e] \in ({"recheck", "gate", "link"} \cup AfterLink) => synced[e]
  /\ result[e] \in Told => /\ pc[e] \in {"drop", "forget", "done"}
                           /\ written[e] = Records /\ synced[e]

\* Only the own file is ever verified: a temporary name that was taken over
\* never leads to the own file again.
Genuine(e) ==
  /\ temp[e] \in Strangers \cup {e, None}
  /\ linked[e] \notin {None, e} => temp[e] # e
  /\ pc[e] \in AfterLink => linked[e] # None
  /\ (pc[e] = "verify" /\ target = e /\ ~down) => linked[e] = e
  /\ verified[e] => linked[e] = e
  /\ result[e] \in Told => linked[e] = e

\* What was linked stays, and stays through a power loss once it was synced.
Kept(e) ==
  /\ (linked[e] # None /\ ~meddled /\ ~down) => target = linked[e]
  /\ (pc[e] = "outcome" /\ ~unsynced[e] /\ ~meddled /\ ~down) => maybe = {target}
  /\ (result[e] \in {"committed", "cleanup"} /\ ~meddled) => maybe = {e} /\ target = e

\* The temporary name is given up before the result says so; the new file is
\* under the chosen name only if another program put it there.
Clean(e) ==
  /\ pc[e] = "start" => temp[e] # e /\ target # e /\ e \notin maybe
  /\ pc[e] \in {"start", "made"} => written[e] = 0
  /\ (pc[e] = "made" /\ (target = e \/ e \in maybe)) => meddled
  /\ (pc[e] \in {"dirsync", "outcome"} /\ ~unclean[e]) => temp[e] # e
  /\ result[e] \in {"committed", "dirsync"} => temp[e] # e
  /\ (pc[e] = "done" /\ temp[e] = e) =>
       faults > 0 \/ (meddled /\ result[e] = "failed" /\ written[e] = 0)

Inv == TypeOK /\ \A e \in Exports : Gated(e) /\ Whole(e) /\ Genuine(e) /\ Kept(e) /\ Clean(e)

LEMMA InitInv == Init => Inv
<1> SUFFICES ASSUME Init PROVE Inv
  OBVIOUS
<1>1. TypeOK
  <2>1. 0 \in 0..Records /\ 0 \in 0..MaxFaults /\ 0 \in 0..MaxUser
    BY Bounds
  <2> QED
    BY <2>1 DEF Init, TypeOK, Objects, Running, Told
<1>2. ASSUME NEW e \in Exports PROVE Gated(e) /\ Whole(e) /\ Genuine(e) /\ Kept(e) /\ Clean(e)
  <2>1. /\ pc[e] = "start" /\ temp[e] = None /\ linked[e] = None /\ result[e] = "none"
        /\ e # None /\ target = None /\ maybe = {None} /\ written[e] = 0
    BY Names DEF Init
  <2>2. gate[e] = "open" /\ verified[e] = FALSE
    BY DEF Init
  <2> QED
    BY <2>1, <2>2 DEF Gated, Whole, Genuine, Kept, Clean, GateHeld, BeforeLink, AfterLink, Told
<1> QED
  BY <1>1, <1>2 DEF Inv

-----------------------------------------------------------------------------
LEMMA TypeStep == ASSUME TypeOK, [Next]_vars PROVE TypeOK'
<1> USE Names, Bounds DEF TypeOK, Objects, Running, Told, Goto, Fault, Steady, Stopped, Fail, Quit,
        files, answers, world
<1>1. ASSUME NEW e \in Exports, Create(e) PROVE TypeOK'
  BY <1>1 DEF Create, TargetFree
<1>1a. ASSUME NEW e \in Exports, CheckNew(e) PROVE TypeOK'
  BY <1>1a DEF CheckNew
<1>2. ASSUME NEW e \in Exports, Record(e) PROVE TypeOK'
  BY <1>2 DEF Record, MoreRecords
<1>3. ASSUME NEW e \in Exports, FlushAndSync(e) PROVE TypeOK'
  <2>1. synced' \in [Exports -> BOOLEAN] /\ result' \in [Exports -> Told \cup {"none", "failed", "uncertain"}]
    BY <1>3 DEF FlushAndSync
  <2>2. faults' \in 0..MaxFaults
    BY <1>3 DEF FlushAndSync
  <2> QED
    BY <1>3, <2>1, <2>2 DEF FlushAndSync
<1>4. ASSUME NEW e \in Exports, Recheck(e) PROVE TypeOK'
  BY <1>4 DEF Recheck
<1>5. ASSUME NEW e \in Exports, Gate(e) PROVE TypeOK'
  BY <1>5 DEF Gate
<1>6. ASSUME NEW e \in Exports, Link(e) PROVE TypeOK'
  BY <1>6 DEF Link
<1>7. ASSUME NEW e \in Exports, Verify(e) PROVE TypeOK'
  BY <1>7 DEF Verify
<1>8. ASSUME NEW e \in Exports, Cleanup(e) PROVE TypeOK'
  BY <1>8 DEF Cleanup
<1>9. ASSUME NEW e \in Exports, Unlink(e) PROVE TypeOK'
  <2>1. temp' \in [Exports -> Objects] /\ unclean' \in [Exports -> BOOLEAN]
    BY <1>9 DEF Unlink
  <2>2. faults' \in 0..MaxFaults
    BY <1>9 DEF Unlink
  <2> QED
    BY <1>9, <2>1, <2>2 DEF Unlink
<1>10. ASSUME NEW e \in Exports, DirSync(e) PROVE TypeOK'
  <2>1. maybe' \subseteq Objects /\ unsynced' \in [Exports -> BOOLEAN]
    BY <1>10 DEF DirSync
  <2>2. faults' \in 0..MaxFaults
    BY <1>10 DEF DirSync
  <2> QED
    BY <1>10, <2>1, <2>2 DEF DirSync
<1>11. ASSUME NEW e \in Exports, Publish(e) PROVE TypeOK'
  BY <1>11 DEF Publish, Outcome
<1>12. ASSUME NEW e \in Exports, Drop(e) PROVE TypeOK'
  BY <1>12 DEF Drop
<1>13. ASSUME NEW e \in Exports, Forget(e) PROVE TypeOK'
  BY <1>13 DEF Forget
<1>14. ASSUME NEW e \in Exports, Cancel(e) PROVE TypeOK'
  BY <1>14 DEF Cancel
<1>15. ASSUME NEW e \in Exports, UserTemp(e) PROVE TypeOK'
  <2>1. temp' \in [Exports -> Objects]
    BY <1>15 DEF UserTemp
  <2>2. user' \in 0..MaxUser
    BY <1>15 DEF UserTemp
  <2> QED
    BY <1>15, <2>1, <2>2 DEF UserTemp
<1>16. ASSUME NEW e \in Exports, UserMove(e) PROVE TypeOK'
  <2>1. temp' \in [Exports -> Objects] /\ target' \in Objects /\ maybe' \subseteq Objects
    BY <1>16 DEF UserMove
  <2>2. user' \in 0..MaxUser
    BY <1>16 DEF UserMove
  <2> QED
    BY <1>16, <2>1, <2>2 DEF UserMove
<1>17. CASE UserTarget
  BY <1>17 DEF UserTarget
<1>18. CASE PowerLoss
  BY <1>18 DEF PowerLoss
<1>19. CASE UNCHANGED vars
  BY <1>19 DEF vars
<1> QED
  BY <1>1, <1>1a, <1>2, <1>3, <1>4, <1>5, <1>6, <1>7, <1>8, <1>9, <1>10, <1>11, <1>12, <1>13,
     <1>14, <1>15, <1>16, <1>17, <1>18, <1>19 DEF Next, Step

LEMMA GatedStep ==
  ASSUME TypeOK, [Next]_vars, NEW e \in Exports, Gated(e)
  PROVE  Gated(e)'
<1> USE DEF TypeOK, Gated, GateHeld, BeforeLink, CancelAccepted, GateOpen, Goto, Fault, Steady, Stopped, Fail, Quit, files, answers, world
<1>1. ASSUME NEW f \in Exports, Create(f) PROVE Gated(e)'
  BY <1>1 DEF Create, TargetFree
<1>1a. ASSUME NEW f \in Exports, CheckNew(f) PROVE Gated(e)'
  BY <1>1a DEF CheckNew, Private, Owned
<1>2. ASSUME NEW f \in Exports, Record(f) PROVE Gated(e)'
  BY <1>2 DEF Record, MoreRecords
<1>3. ASSUME NEW f \in Exports, FlushAndSync(f) PROVE Gated(e)'
  BY <1>3 DEF FlushAndSync
<1>4. ASSUME NEW f \in Exports, Recheck(f) PROVE Gated(e)'
  BY <1>4 DEF Recheck, Private
<1>5. ASSUME NEW f \in Exports, Gate(f) PROVE Gated(e)'
  BY <1>5 DEF Gate, GateOpen, Private, TargetFree
<1>6. ASSUME NEW f \in Exports, Link(f) PROVE Gated(e)'
  BY <1>6 DEF Link, TargetFree
<1>7. ASSUME NEW f \in Exports, Verify(f) PROVE Gated(e)'
  BY <1>7 DEF Verify
<1>8. ASSUME NEW f \in Exports, Cleanup(f) PROVE Gated(e)'
  BY <1>8 DEF Cleanup, Owned
<1>9. ASSUME NEW f \in Exports, Unlink(f) PROVE Gated(e)'
  BY <1>9 DEF Unlink
<1>10. ASSUME NEW f \in Exports, DirSync(f) PROVE Gated(e)'
  BY <1>10 DEF DirSync
<1>11. ASSUME NEW f \in Exports, Publish(f) PROVE Gated(e)'
  BY <1>11 DEF Publish, Outcome
<1>12. ASSUME NEW f \in Exports, Drop(f) PROVE Gated(e)'
  BY <1>12 DEF Drop, Owned
<1>13. ASSUME NEW f \in Exports, Forget(f) PROVE Gated(e)'
  BY <1>13 DEF Forget
<1>14. ASSUME NEW f \in Exports, Cancel(f) PROVE Gated(e)'
  BY <1>14 DEF Cancel, CancelAccepted
<1>15. ASSUME NEW f \in Exports, UserTemp(f) PROVE Gated(e)'
  BY <1>15 DEF UserTemp
<1>16. ASSUME NEW f \in Exports, UserMove(f) PROVE Gated(e)'
  BY <1>16 DEF UserMove, Owned
<1>17. CASE UserTarget
  BY <1>17 DEF UserTarget
<1>18. CASE PowerLoss
  BY <1>18 DEF PowerLoss
<1>19. CASE UNCHANGED vars
  BY <1>19 DEF vars
<1> QED
  BY <1>1, <1>1a, <1>2, <1>3, <1>4, <1>5, <1>6, <1>7, <1>8, <1>9, <1>10, <1>11, <1>12, <1>13,
     <1>14, <1>15, <1>16, <1>17, <1>18, <1>19 DEF Next, Step

LEMMA WholeStep ==
  ASSUME TypeOK, [Next]_vars, NEW e \in Exports, Whole(e)
  PROVE  Whole(e)'
<1> USE Bounds DEF TypeOK, Whole, AfterLink, Told, MoreRecords, Goto, Fault, Steady, Stopped, Fail, Quit, files, answers, world
<1>1. ASSUME NEW f \in Exports, Create(f) PROVE Whole(e)'
  BY <1>1 DEF Create, TargetFree
<1>1a. ASSUME NEW f \in Exports, CheckNew(f) PROVE Whole(e)'
  BY <1>1a DEF CheckNew, Private, Owned
<1>2. ASSUME NEW f \in Exports, Record(f) PROVE Whole(e)'
  BY <1>2 DEF Record, MoreRecords
<1>3. ASSUME NEW f \in Exports, FlushAndSync(f) PROVE Whole(e)'
  BY <1>3 DEF FlushAndSync
<1>4. ASSUME NEW f \in Exports, Recheck(f) PROVE Whole(e)'
  BY <1>4 DEF Recheck, Private
<1>5. ASSUME NEW f \in Exports, Gate(f) PROVE Whole(e)'
  BY <1>5 DEF Gate, GateOpen, Private, TargetFree
<1>6. ASSUME NEW f \in Exports, Link(f) PROVE Whole(e)'
  BY <1>6 DEF Link, TargetFree
<1>7. ASSUME NEW f \in Exports, Verify(f) PROVE Whole(e)'
  BY <1>7 DEF Verify
<1>8. ASSUME NEW f \in Exports, Cleanup(f) PROVE Whole(e)'
  BY <1>8 DEF Cleanup, Owned
<1>9. ASSUME NEW f \in Exports, Unlink(f) PROVE Whole(e)'
  BY <1>9 DEF Unlink
<1>10. ASSUME NEW f \in Exports, DirSync(f) PROVE Whole(e)'
  BY <1>10 DEF DirSync
<1>11. ASSUME NEW f \in Exports, Publish(f) PROVE Whole(e)'
  BY <1>11 DEF Publish, Outcome
<1>12. ASSUME NEW f \in Exports, Drop(f) PROVE Whole(e)'
  BY <1>12 DEF Drop, Owned
<1>13. ASSUME NEW f \in Exports, Forget(f) PROVE Whole(e)'
  BY <1>13 DEF Forget
<1>14. ASSUME NEW f \in Exports, Cancel(f) PROVE Whole(e)'
  BY <1>14 DEF Cancel, CancelAccepted
<1>15. ASSUME NEW f \in Exports, UserTemp(f) PROVE Whole(e)'
  BY <1>15 DEF UserTemp
<1>16. ASSUME NEW f \in Exports, UserMove(f) PROVE Whole(e)'
  BY <1>16 DEF UserMove, Owned
<1>17. CASE UserTarget
  BY <1>17 DEF UserTarget
<1>18. CASE PowerLoss
  BY <1>18 DEF PowerLoss
<1>19. CASE UNCHANGED vars
  BY <1>19 DEF vars
<1> QED
  BY <1>1, <1>1a, <1>2, <1>3, <1>4, <1>5, <1>6, <1>7, <1>8, <1>9, <1>10, <1>11, <1>12, <1>13,
     <1>14, <1>15, <1>16, <1>17, <1>18, <1>19 DEF Next, Step

LEMMA GenuineStep ==
  ASSUME TypeOK, [Next]_vars, \A g \in Exports : Genuine(g), NEW e \in Exports, Gated(e)
  PROVE  Genuine(e)'
<1> USE Names DEF TypeOK, Genuine, Gated, BeforeLink, AfterLink, Told, Objects, Goto, Fault, Steady, Stopped, Fail, Quit, files, answers, world
<1>1. ASSUME NEW f \in Exports, Create(f) PROVE Genuine(e)'
  BY <1>1 DEF Create, TargetFree
<1>1a. ASSUME NEW f \in Exports, CheckNew(f) PROVE Genuine(e)'
  BY <1>1a DEF CheckNew, Private, Owned
<1>2. ASSUME NEW f \in Exports, Record(f) PROVE Genuine(e)'
  BY <1>2 DEF Record, MoreRecords
<1>3. ASSUME NEW f \in Exports, FlushAndSync(f) PROVE Genuine(e)'
  BY <1>3 DEF FlushAndSync
<1>4. ASSUME NEW f \in Exports, Recheck(f) PROVE Genuine(e)'
  BY <1>4 DEF Recheck, Private
<1>5. ASSUME NEW f \in Exports, Gate(f) PROVE Genuine(e)'
  BY <1>5 DEF Gate, GateOpen, Private, TargetFree
<1>6. ASSUME NEW f \in Exports, Link(f) PROVE Genuine(e)'
  BY <1>6 DEF Link, TargetFree
<1>7. ASSUME NEW f \in Exports, ~down, Verify(f) PROVE Genuine(e)'
  BY <1>7 DEF Verify
<1>8. ASSUME NEW f \in Exports, Cleanup(f) PROVE Genuine(e)'
  BY <1>8 DEF Cleanup, Owned
<1>9. ASSUME NEW f \in Exports, Unlink(f) PROVE Genuine(e)'
  BY <1>9 DEF Unlink
<1>10. ASSUME NEW f \in Exports, DirSync(f) PROVE Genuine(e)'
  BY <1>10 DEF DirSync
<1>11. ASSUME NEW f \in Exports, Publish(f) PROVE Genuine(e)'
  BY <1>11 DEF Publish, Outcome
<1>12. ASSUME NEW f \in Exports, Drop(f) PROVE Genuine(e)'
  BY <1>12 DEF Drop, Owned
<1>13. ASSUME NEW f \in Exports, Forget(f) PROVE Genuine(e)'
  BY <1>13 DEF Forget
<1>14. ASSUME NEW f \in Exports, Cancel(f) PROVE Genuine(e)'
  BY <1>14 DEF Cancel, CancelAccepted
<1>15. ASSUME NEW f \in Exports, UserTemp(f) PROVE Genuine(e)'
  BY <1>15 DEF UserTemp
<1>16. ASSUME NEW f \in Exports, UserMove(f) PROVE Genuine(e)'
  BY <1>16 DEF UserMove, Owned
<1>17. CASE UserTarget
  BY <1>17 DEF UserTarget
<1>18. CASE PowerLoss
  BY <1>18 DEF PowerLoss
<1>19. CASE UNCHANGED vars
  BY <1>19 DEF vars
<1> QED
  BY <1>1, <1>1a, <1>2, <1>3, <1>4, <1>5, <1>6, <1>7, <1>8, <1>9, <1>10, <1>11, <1>12, <1>13,
     <1>14, <1>15, <1>16, <1>17, <1>18, <1>19 DEF Next, Step

LEMMA CleanStep ==
  ASSUME TypeOK, [Next]_vars, \A g \in Exports : Genuine(g), NEW e \in Exports, Gated(e), Clean(e)
  PROVE  Clean(e)'
<1> USE Names, Bounds DEF TypeOK, Clean, Gated, BeforeLink, Genuine, Told, Objects, Goto, Fault, Steady, Stopped, Fail, Quit, files, answers, world
<1>1. ASSUME NEW f \in Exports, Create(f) PROVE Clean(e)'
  BY <1>1 DEF Create, TargetFree
<1>1a. ASSUME NEW f \in Exports, CheckNew(f) PROVE Clean(e)'
  BY <1>1a DEF CheckNew, Private, Owned
<1>2. ASSUME NEW f \in Exports, Record(f) PROVE Clean(e)'
  BY <1>2 DEF Record, MoreRecords
<1>3. ASSUME NEW f \in Exports, FlushAndSync(f) PROVE Clean(e)'
  BY <1>3 DEF FlushAndSync
<1>4. ASSUME NEW f \in Exports, Recheck(f) PROVE Clean(e)'
  BY <1>4 DEF Recheck, Private
<1>5. ASSUME NEW f \in Exports, Gate(f) PROVE Clean(e)'
  BY <1>5 DEF Gate, GateOpen, Private, TargetFree
<1>6. ASSUME NEW f \in Exports, Link(f) PROVE Clean(e)'
  BY <1>6 DEF Link, TargetFree
<1>7. ASSUME NEW f \in Exports, Verify(f) PROVE Clean(e)'
  BY <1>7 DEF Verify
<1>8. ASSUME NEW f \in Exports, Cleanup(f) PROVE Clean(e)'
  BY <1>8 DEF Cleanup, Owned
<1>9. ASSUME NEW f \in Exports, Unlink(f) PROVE Clean(e)'
  BY <1>9 DEF Unlink
<1>10. ASSUME NEW f \in Exports, DirSync(f) PROVE Clean(e)'
  BY <1>10 DEF DirSync
<1>11. ASSUME NEW f \in Exports, Publish(f) PROVE Clean(e)'
  BY <1>11 DEF Publish, Outcome
<1>12. ASSUME NEW f \in Exports, Drop(f) PROVE Clean(e)'
  BY <1>12 DEF Drop, Owned
<1>13. ASSUME NEW f \in Exports, Forget(f) PROVE Clean(e)'
  BY <1>13 DEF Forget
<1>14. ASSUME NEW f \in Exports, Cancel(f) PROVE Clean(e)'
  BY <1>14 DEF Cancel, CancelAccepted
<1>15. ASSUME NEW f \in Exports, UserTemp(f) PROVE Clean(e)'
  BY <1>15 DEF UserTemp
<1>16. ASSUME NEW f \in Exports, UserMove(f) PROVE Clean(e)'
  BY <1>16 DEF UserMove, Owned
<1>17. CASE UserTarget
  BY <1>17 DEF UserTarget
<1>18. CASE PowerLoss
  BY <1>18 DEF PowerLoss
<1>19. CASE UNCHANGED vars
  BY <1>19 DEF vars
<1> QED
  BY <1>1, <1>1a, <1>2, <1>3, <1>4, <1>5, <1>6, <1>7, <1>8, <1>9, <1>10, <1>11, <1>12, <1>13,
     <1>14, <1>15, <1>16, <1>17, <1>18, <1>19 DEF Next, Step

LEMMA KeptStep ==
  ASSUME TypeOK, [Next]_vars, \A g \in Exports : Gated(g) /\ Genuine(g), NEW e \in Exports, Kept(e)
  PROVE  Kept(e)'
<1> USE Names DEF TypeOK, Kept, Gated, BeforeLink, AfterLink, Genuine, Told, Objects, Goto, Fault, Steady, Stopped, Fail, Quit, files, answers, world
<1>1. ASSUME NEW f \in Exports, Create(f) PROVE Kept(e)'
  BY <1>1 DEF Create, TargetFree
<1>1a. ASSUME NEW f \in Exports, CheckNew(f) PROVE Kept(e)'
  BY <1>1a DEF CheckNew, Private, Owned
<1>2. ASSUME NEW f \in Exports, Record(f) PROVE Kept(e)'
  BY <1>2 DEF Record, MoreRecords
<1>3. ASSUME NEW f \in Exports, FlushAndSync(f) PROVE Kept(e)'
  BY <1>3 DEF FlushAndSync
<1>4. ASSUME NEW f \in Exports, Recheck(f) PROVE Kept(e)'
  BY <1>4 DEF Recheck, Private
<1>5. ASSUME NEW f \in Exports, Gate(f) PROVE Kept(e)'
  BY <1>5 DEF Gate, GateOpen, Private, TargetFree
<1>6. ASSUME NEW f \in Exports, Link(f) PROVE Kept(e)'
  BY <1>6 DEF Link, TargetFree
<1>7. ASSUME NEW f \in Exports, Verify(f) PROVE Kept(e)'
  BY <1>7 DEF Verify
<1>8. ASSUME NEW f \in Exports, Cleanup(f) PROVE Kept(e)'
  BY <1>8 DEF Cleanup, Owned
<1>9. ASSUME NEW f \in Exports, Unlink(f) PROVE Kept(e)'
  BY <1>9 DEF Unlink
<1>10. ASSUME NEW f \in Exports, DirSync(f) PROVE Kept(e)'
  BY <1>10 DEF DirSync
<1>11. ASSUME NEW f \in Exports, ~down, Publish(f) PROVE Kept(e)'
  BY <1>11 DEF Publish, Outcome
<1>12. ASSUME NEW f \in Exports, Drop(f) PROVE Kept(e)'
  BY <1>12 DEF Drop, Owned
<1>13. ASSUME NEW f \in Exports, Forget(f) PROVE Kept(e)'
  BY <1>13 DEF Forget
<1>14. ASSUME NEW f \in Exports, Cancel(f) PROVE Kept(e)'
  BY <1>14 DEF Cancel, CancelAccepted
<1>15. ASSUME NEW f \in Exports, UserTemp(f) PROVE Kept(e)'
  BY <1>15 DEF UserTemp
<1>16. ASSUME NEW f \in Exports, UserMove(f) PROVE Kept(e)'
  BY <1>16 DEF UserMove, Owned
<1>17. CASE UserTarget
  BY <1>17 DEF UserTarget
<1>18. CASE PowerLoss
  BY <1>18 DEF PowerLoss
<1>19. CASE UNCHANGED vars
  BY <1>19 DEF vars
<1> QED
  BY <1>1, <1>1a, <1>2, <1>3, <1>4, <1>5, <1>6, <1>7, <1>8, <1>9, <1>10, <1>11, <1>12, <1>13,
     <1>14, <1>15, <1>16, <1>17, <1>18, <1>19 DEF Next, Step

LEMMA StepInv == Inv /\ [Next]_vars => Inv'
<1> SUFFICES ASSUME Inv, [Next]_vars PROVE Inv'
  OBVIOUS
<1> USE DEF Inv
<1>1. TypeOK'
  BY TypeStep
<1>2. \A e \in Exports : Gated(e)'
  BY GatedStep
<1>3. \A e \in Exports : Whole(e)'
  BY WholeStep
<1>4. \A e \in Exports : Genuine(e)'
  BY GenuineStep
<1>5. \A e \in Exports : Kept(e)'
  BY KeptStep
<1>6. \A e \in Exports : Clean(e)'
  BY CleanStep
<1> QED
  BY <1>1, <1>2, <1>3, <1>4, <1>5, <1>6

LEMMA InvHolds == Spec => []Inv
  BY InitInv, StepInv, PTL DEF Spec

-----------------------------------------------------------------------------
\* Every variable keeps its shape, however many exports, records and failures.
THEOREM TypeCorrect == Spec => []TypeOK
<1>1. Inv => TypeOK
  BY DEF Inv
<1> QED
  BY <1>1, InvHolds, PTL

\* An accepted cancellation publishes nothing: cancel() and commit_link() meet
\* at one mutex, and whichever comes second sees what the first decided.
THEOREM CancelledStaysUnpublished == Spec => []CancelUnpublished
<1>1. Inv => CancelUnpublished
  <2> SUFFICES ASSUME Inv, NEW e \in Exports, cancelled[e], linked[e] # None PROVE FALSE
    BY DEF CancelUnpublished
  <2>1. gate[e] # "committed" /\ pc[e] # "verify"
    BY DEF Inv, Gated, GateHeld
  <2> QED
    BY <2>1 DEF Inv, Gated
<1> QED
  BY <1>1, InvHolds, PTL

\* "Committed", with or without a warning, says what the disk holds, and what
\* it will hold after a power loss, for any interference with the names.
THEOREM ReportsAreTrue == Spec => []ReportTrue
<1>1. Inv => ReportTrue
  BY DEF Inv, Whole, Genuine, Kept, ReportTrue
<1> QED
  BY <1>1, InvHolds, PTL

\* A clean commit never leaves its temporary file behind, and no other way out
\* of write_history_export does unless a call failed or another program linked
\* the new file before create_temp had looked at it.
THEOREM NoLitterLeft == Spec => []NoLitter
<1>1. Inv => NoLitter
  BY Bounds DEF Inv, TypeOK, Clean, NoLitter, Owned
<1> QED
  BY <1>1, InvHolds, PTL

\* The link is the only step of an export that touches the chosen name, and it
\* does so only when the name is free at that very moment.
THEOREM NothingIsReplaced == Spec => NothingReplaced
<1> DEFINE Keeps == target # None /\ user' = user /\ ~down' => target' = target
<1>1. Inv /\ [Next]_vars => [Keeps]_vars
  <2> SUFFICES ASSUME Inv, Next, target # None, user' = user, ~down' PROVE target' = target
    OBVIOUS
  <2> USE DEF Goto, Fault, Steady, Stopped, Fail, Quit, files, answers, world
  <2>1. ASSUME NEW e \in Exports, Step(e) PROVE target' = target
    BY <2>1 DEF Step, Create, CheckNew, Record, FlushAndSync, Recheck, Gate, Link, TargetFree, Verify,
       Cleanup, Unlink, DirSync, Publish, Drop, Forget, Cancel
  <2>2. user \in Int
    BY Bounds DEF Inv, TypeOK
  <2>3. ASSUME NEW e \in Exports, UserTemp(e) \/ UserMove(e) PROVE FALSE
    BY <2>2, <2>3 DEF UserTemp, UserMove
  <2>4. ~UserTarget /\ ~PowerLoss
    BY <2>2 DEF UserTarget, PowerLoss
  <2> QED
    BY <2>1, <2>3, <2>4 DEF Next
<1> QED
  BY <1>1, InvHolds, PTL DEF Spec, NothingReplaced
=============================================================================
