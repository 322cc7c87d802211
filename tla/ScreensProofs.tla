---------------------------- MODULE ScreensProofs ----------------------------
(***************************************************************************)
(* RemoteExchange and Screens, for any jobs and items, any delays, and any *)
(* number of faults.                                                       *)
(***************************************************************************)
EXTENDS Screens, TLAPS

-----------------------------------------------------------------------------
(* The exchange by itself. *)

ExchangeNext ==
  \/ \E c \in Clients : \/ Begin(c) \/ ClientSteps(c) \/ Serves(c) \/ Disturbs(c)
                        \/ Ends(c, "done") \/ Ends(c, "failed")
  \/ \E j \in Jobs : Works(j) \/ Reaps(j)

(* What a client knows of the job the server made for it. *)
JobsAreMade ==
  \A c \in Clients :
    /\ pc[c] \in {"polling", "sleeping", "fetching", "deleting"} => mine[c] \in Jobs
    /\ mine[c] # None => job[mine[c]] # "absent"
    /\ pc[c] = "posting" /\ answer[c] = None => mine[c] = None
    /\ pc[c] = "posting" /\ answer[c] # None /\ answer[c] = "accepted" => mine[c] # None

(* The server makes a job for one client. *)
JobsAreApart == \A c, d \in Clients : mine[c] # None /\ mine[c] = mine[d] => c = d

(* A client gets to the DELETE with the archive in hand. *)
DeletersHold == \A c \in Clients : pc[c] = "deleting" => held[c] = mine[c]

(* A client that slept past the end of its job has asked again, and hears of
   it: it does not go back to sleep. *)
LateOnce ==
  \A c \in Clients : late[c] # 0 =>
    /\ mine[c] \in Jobs /\ job[mine[c]] \in Server!Terminal \union {"gone"}
    /\ pc[c] \notin {"posting", "sleeping"}
    /\ pc[c] = "polling" /\ answer[c] # None => answer[c] \notin Server!Unfinished

ExchangeInv ==
  /\ ExchangeTypeOK /\ JobsAreMade /\ JobsAreApart /\ DeletersHold /\ LateOnce
  /\ DeletedOnlyOnceHeld /\ LatenessIsBounded

(* The delay starts between its bounds and stays there. *)
LEMMA DelayStaysInBounds ==
  ASSUME NEW d \in FirstDelay..MaxDelay
  PROVE  NextDelay(d) \in FirstDelay..MaxDelay
  BY DelayAssumption DEF NextDelay

(* Counting how late a client is stays within what is counted to. *)
LEMMA LateIsCapped ==
  /\ \A ms \in Nat : LateCap(ms) \in Nat
  /\ \A d \in FirstDelay..MaxDelay : LateCap(0 + d) <= MaxDelay
  BY DelayAssumption DEF LateCap

(* The exchange stays well typed: a poll asks for a job that exists. *)
LEMMA ExchangeTypes ==
  ExchangeTypeOK /\ JobsAreMade /\ [ExchangeNext]_exchange => ExchangeTypeOK'
<1> SUFFICES ASSUME ExchangeTypeOK, JobsAreMade, [ExchangeNext]_exchange PROVE ExchangeTypeOK'
  OBVIOUS
<1> USE DEF ExchangeTypeOK, Answers, Calls, Server!States, Server!Unfinished, Server!Terminal
<1>1. CASE UNCHANGED exchange
  BY <1>1 DEF exchange, server
<1>2. ASSUME NEW c \in Clients, Begin(c) PROVE ExchangeTypeOK'
  BY <1>2, DelayAssumption DEF Begin, To, server
<1>3. ASSUME NEW c \in Clients, PostAnswered(c) PROVE ExchangeTypeOK'
  BY <1>3 DEF PostAnswered, Unless, To, server
<1>4. ASSUME NEW c \in Clients, PollAnswered(c) PROVE ExchangeTypeOK'
  BY <1>4 DEF PollAnswered, To, server
<1>5. ASSUME NEW c \in Clients, Wake(c) PROVE ExchangeTypeOK'
  <2>1. NextDelay(delay[c]) \in FirstDelay..MaxDelay
    BY DelayStaysInBounds
  <2>2. late[c] + delay[c] \in Nat /\ LateCap(late[c] + delay[c]) \in Nat
    BY DelayAssumption, LateIsCapped
  <2> QED
    BY <1>5, <2>1, <2>2 DEF Wake, To, server
<1>6. ASSUME NEW c \in Clients, DownloadAnswered(c) PROVE ExchangeTypeOK'
  BY <1>6 DEF DownloadAnswered, Unless, To, server
<1>7. ASSUME NEW c \in Clients, DeleteAnswered(c) PROVE ExchangeTypeOK'
  BY <1>7 DEF DeleteAnswered, To, server
<1>8. ASSUME NEW c \in Clients, CallFails(c) PROVE ExchangeTypeOK'
  BY <1>8, FaultAssumption DEF CallFails, Fault, To, server
<1>9. ASSUME NEW c \in Clients, PostServed(c) PROVE ExchangeTypeOK'
  BY <1>9 DEF PostServed, Reply, Rest, Server!Accept, Server!Become
<1>10. ASSUME NEW c \in Clients, PollServed(c) PROVE ExchangeTypeOK'
  <2>1. mine[c] \in Jobs
    BY <1>10 DEF PollServed, Called, JobsAreMade
  <2>2. job[mine[c]] \in Server!States \ {"absent"}
    BY <2>1, NoneAssumption DEF JobsAreMade
  <2>3. (IF job[mine[c]] = "gone" THEN "refused" ELSE job[mine[c]]) \in Answers \union {None}
    BY <2>2
  <2>4. answer' \in [Clients -> Answers \union {None}]
    BY <1>10, <2>3 DEF PollServed, Reply
  <2> QED
    BY <1>10, <2>4 DEF PollServed, Rest, server
<1>11. ASSUME NEW c \in Clients, DownloadServed(c) PROVE ExchangeTypeOK'
  BY <1>11 DEF DownloadServed, Reply, Rest, server
<1>12. ASSUME NEW c \in Clients, DeleteServed(c) PROVE ExchangeTypeOK'
  BY <1>12 DEF DeleteServed, Reply, Rest, Server!Forget, Server!Become
<1>13. ASSUME NEW c \in Clients, Refuses(c) \/ AnswersUnknown(c)
       PROVE ExchangeTypeOK'
  BY <1>13, FaultAssumption DEF Refuses, AnswersUnknown, Reply, Rest, Fault, server
<1>14. ASSUME NEW c \in Clients, Ends(c, "done") \/ Ends(c, "failed") PROVE ExchangeTypeOK'
  BY <1>14 DEF Ends, To, server
<1>15. ASSUME NEW j \in Jobs, Works(j) \/ Reaps(j) PROVE ExchangeTypeOK'
  BY <1>15
     DEF Works, Reaps, Rest, Server!Start, Server!Settle, Server!Forget, Server!Become
<1> QED
  BY <1>1, <1>2, <1>3, <1>4, <1>5, <1>6, <1>7, <1>8, <1>9, <1>10, <1>11, <1>12, <1>13, <1>14,
     <1>15 DEF ExchangeNext, ClientSteps, Serves, Disturbs

(* The jobs the clients know of. *)
LEMMA JobsKeep ==
  ExchangeInv /\ [ExchangeNext]_exchange => JobsAreMade' /\ JobsAreApart'
<1> SUFFICES ASSUME ExchangeInv, [ExchangeNext]_exchange PROVE JobsAreMade' /\ JobsAreApart'
  OBVIOUS
<1> ExchangeTypeOK /\ JobsAreMade /\ JobsAreApart
  BY DEF ExchangeInv
<1> USE DEF ExchangeTypeOK, JobsAreMade, JobsAreApart, Server!States, Server!Unfinished,
            Server!Terminal
<1>0. CASE UNCHANGED exchange
  BY <1>0 DEF exchange, server
<1>1. ASSUME NEW c \in Clients, Begin(c) PROVE JobsAreMade' /\ JobsAreApart'
  BY <1>1 DEF Begin, To, server
<1>2. ASSUME NEW c \in Clients, PostAnswered(c) PROVE JobsAreMade' /\ JobsAreApart'
  BY <1>2 DEF PostAnswered, Answered, Unless, To, server
<1>3. ASSUME NEW c \in Clients, PollAnswered(c) PROVE JobsAreMade' /\ JobsAreApart'
  BY <1>3 DEF PollAnswered, Answered, ProgressOf, To, server
<1>4. ASSUME NEW c \in Clients, Wake(c) PROVE JobsAreMade' /\ JobsAreApart'
  BY <1>4 DEF Wake, To, server
<1>5. ASSUME NEW c \in Clients, DownloadAnswered(c) PROVE JobsAreMade' /\ JobsAreApart'
  BY <1>5 DEF DownloadAnswered, Answered, Unless, To, server
<1>6. ASSUME NEW c \in Clients, DeleteAnswered(c) PROVE JobsAreMade' /\ JobsAreApart'
  BY <1>6 DEF DeleteAnswered, Answered, To, server
<1>7. ASSUME NEW c \in Clients, CallFails(c) PROVE JobsAreMade' /\ JobsAreApart'
  BY <1>7 DEF CallFails, To, server
<1>8. ASSUME NEW c \in Clients, PostServed(c) PROVE JobsAreMade' /\ JobsAreApart'
  <2>1. PICK j \in Jobs : Server!Accept(j) /\ mine' = [mine EXCEPT ![c] = j]
    BY <1>8 DEF PostServed
  <2>2. job[j] = "absent" /\ job' = [job EXCEPT ![j] = "queued"]
    BY <2>1 DEF Server!Accept, Server!Become
  <2>3. /\ pc' = pc /\ pc[c] = "posting" /\ answer' = [answer EXCEPT ![c] = "accepted"]
        /\ "accepted" # None
    BY <1>8, AnswerAssumption DEF PostServed, Called, Reply, Rest, Answers
  <2>4. \A d \in Clients : mine[d] # j
    BY <2>1, <2>2, NoneAssumption
  <2>5. JobsAreMade'
    BY <2>1, <2>2, <2>3, <2>4, NoneAssumption
  <2>6. JobsAreApart'
    BY <2>1, <2>4
  <2> QED
    BY <2>5, <2>6
<1>9. ASSUME NEW c \in Clients, PollServed(c) PROVE JobsAreMade' /\ JobsAreApart'
  BY <1>9 DEF PollServed, Called, Reply, Rest, server
<1>10. ASSUME NEW c \in Clients, DownloadServed(c) PROVE JobsAreMade' /\ JobsAreApart'
  BY <1>10 DEF DownloadServed, Called, Reply, Rest, server
<1>11. ASSUME NEW c \in Clients, DeleteServed(c) PROVE JobsAreMade' /\ JobsAreApart'
  BY <1>11 DEF DeleteServed, Called, Reply, Rest, Server!Forget, Server!Become
<1>12. ASSUME NEW c \in Clients, Refuses(c) \/ AnswersUnknown(c)
       PROVE JobsAreMade' /\ JobsAreApart'
  BY <1>12 DEF Refuses, AnswersUnknown, Called, Reply, Rest, server
<1>13. ASSUME NEW c \in Clients, Ends(c, "done") \/ Ends(c, "failed")
       PROVE JobsAreMade' /\ JobsAreApart'
  BY <1>13 DEF Ends, To, server
<1>14. ASSUME NEW j \in Jobs, Works(j) \/ Reaps(j) PROVE JobsAreMade' /\ JobsAreApart'
  BY <1>14 DEF Works, Reaps, Rest, Server!Start, Server!Settle, Server!Forget, Server!Become
<1> QED
  BY <1>0, <1>1, <1>2, <1>3, <1>4, <1>5, <1>6, <1>7, <1>8, <1>9, <1>10, <1>11, <1>12, <1>13, <1>14
     DEF ExchangeNext, ClientSteps, Serves, Disturbs

(* What is deleted, and by whom. *)
LEMMA DeletesKeep ==
  ExchangeInv /\ [ExchangeNext]_exchange => DeletersHold' /\ DeletedOnlyOnceHeld'
<1> SUFFICES ASSUME ExchangeInv, [ExchangeNext]_exchange
             PROVE  DeletersHold' /\ DeletedOnlyOnceHeld'
  OBVIOUS
<1> ExchangeTypeOK /\ JobsAreMade /\ JobsAreApart /\ DeletersHold /\ DeletedOnlyOnceHeld
  BY DEF ExchangeInv
<1> USE DEF ExchangeTypeOK, JobsAreMade, JobsAreApart, DeletersHold, DeletedOnlyOnceHeld,
            Server!States, Server!Unfinished, Server!Terminal
<1>0. CASE UNCHANGED exchange
  BY <1>0 DEF exchange, server
<1>1. ASSUME NEW c \in Clients, Begin(c) PROVE DeletersHold' /\ DeletedOnlyOnceHeld'
  BY <1>1 DEF Begin, To, server
<1>2. ASSUME NEW c \in Clients, PostAnswered(c) PROVE DeletersHold' /\ DeletedOnlyOnceHeld'
  BY <1>2 DEF PostAnswered, Answered, Unless, To, server
<1>3. ASSUME NEW c \in Clients, PollAnswered(c) PROVE DeletersHold' /\ DeletedOnlyOnceHeld'
  BY <1>3 DEF PollAnswered, Answered, ProgressOf, To, server
<1>4. ASSUME NEW c \in Clients, Wake(c) PROVE DeletersHold' /\ DeletedOnlyOnceHeld'
  BY <1>4 DEF Wake, To, server
<1>5. ASSUME NEW c \in Clients, DownloadAnswered(c) PROVE DeletersHold' /\ DeletedOnlyOnceHeld'
  BY <1>5 DEF DownloadAnswered, Answered, Unless, To, server
<1>6. ASSUME NEW c \in Clients, DeleteAnswered(c) PROVE DeletersHold' /\ DeletedOnlyOnceHeld'
  BY <1>6 DEF DeleteAnswered, Answered, To, server
<1>7. ASSUME NEW c \in Clients, CallFails(c) PROVE DeletersHold' /\ DeletedOnlyOnceHeld'
  BY <1>7 DEF CallFails, To, server
<1>8. ASSUME NEW c \in Clients, PostServed(c) PROVE DeletersHold' /\ DeletedOnlyOnceHeld'
  BY <1>8 DEF PostServed, Called, Reply, Rest, Server!Accept, Server!Become
<1>9. ASSUME NEW c \in Clients, PollServed(c) PROVE DeletersHold' /\ DeletedOnlyOnceHeld'
  BY <1>9 DEF PollServed, Called, Reply, Rest, server
<1>10. ASSUME NEW c \in Clients, DownloadServed(c) PROVE DeletersHold' /\ DeletedOnlyOnceHeld'
  BY <1>10 DEF DownloadServed, Called, Reply, Rest, server
<1>11. ASSUME NEW c \in Clients, DeleteServed(c) PROVE DeletersHold' /\ DeletedOnlyOnceHeld'
  BY <1>11 DEF DeleteServed, Called, Reply, Rest, Server!Forget, Server!Become
<1>12. ASSUME NEW c \in Clients, Refuses(c) \/ AnswersUnknown(c)
       PROVE DeletersHold' /\ DeletedOnlyOnceHeld'
  BY <1>12 DEF Refuses, AnswersUnknown, Called, Reply, Rest, server
<1>13. ASSUME NEW c \in Clients, Ends(c, "done") \/ Ends(c, "failed")
       PROVE DeletersHold' /\ DeletedOnlyOnceHeld'
  BY <1>13 DEF Ends, To, server
<1>14. ASSUME NEW j \in Jobs, Works(j) \/ Reaps(j) PROVE DeletersHold' /\ DeletedOnlyOnceHeld'
  BY <1>14 DEF Works, Reaps, Rest, Server!Start, Server!Settle, Server!Forget, Server!Become
<1> QED
  BY <1>0, <1>1, <1>2, <1>3, <1>4, <1>5, <1>6, <1>7, <1>8, <1>9, <1>10, <1>11, <1>12, <1>13, <1>14
     DEF ExchangeNext, ClientSteps, Serves, Disturbs

(* How late a client may be. *)
LEMMA LatenessKeeps ==
  ExchangeInv /\ [ExchangeNext]_exchange => LateOnce' /\ LatenessIsBounded'
<1> SUFFICES ASSUME ExchangeInv, [ExchangeNext]_exchange PROVE LateOnce' /\ LatenessIsBounded'
  OBVIOUS
<1> ExchangeTypeOK /\ JobsAreMade /\ LateOnce /\ LatenessIsBounded
  BY DEF ExchangeInv
<1> USE DEF ExchangeTypeOK, JobsAreMade, LateOnce, LatenessIsBounded, Server!States,
            Server!Unfinished, Server!Terminal
<1>0. CASE UNCHANGED exchange
  BY <1>0 DEF exchange, server
<1>1. ASSUME NEW c \in Clients, Begin(c) PROVE LateOnce' /\ LatenessIsBounded'
  <2>1. late' = [late EXCEPT ![c] = 0] /\ 0 <= MaxDelay
    BY <1>1, DelayAssumption DEF Begin
  <2>2. LatenessIsBounded'
    BY <2>1
  <2>3. LateOnce'
    BY <1>1, <2>1 DEF Begin, To, server
  <2> QED
    BY <2>2, <2>3
<1>2. ASSUME NEW c \in Clients, PostAnswered(c) PROVE LateOnce' /\ LatenessIsBounded'
  BY <1>2 DEF PostAnswered, Answered, Unless, To, server
<1>3. ASSUME NEW c \in Clients, PollAnswered(c) PROVE LateOnce' /\ LatenessIsBounded'
  BY <1>3 DEF PollAnswered, Answered, ProgressOf, To, server
<1>4. ASSUME NEW c \in Clients, Wake(c) PROVE LateOnce' /\ LatenessIsBounded'
  <2>1. late[c] = 0 /\ mine[c] \in Jobs /\ job[mine[c]] # "absent"
    BY <1>4, NoneAssumption DEF Wake
  <2>2. late' = [late EXCEPT ![c] = IF job[mine[c]] \in Server!Unfinished THEN 0
                                    ELSE LateCap(0 + delay[c])]
    BY <1>4, <2>1 DEF Wake
  <2>3. /\ pc' = [pc EXCEPT ![c] = "polling"] /\ answer' = [answer EXCEPT ![c] = None]
        /\ UNCHANGED <<job, mine>>
    BY <1>4 DEF Wake, To, server
  <2>4. LateCap(0 + delay[c]) <= MaxDelay /\ 0 <= MaxDelay
    BY LateIsCapped, DelayAssumption
  <2>5. LatenessIsBounded'
    BY <2>2, <2>4
  <2>6. LateOnce'
    BY <2>1, <2>2, <2>3
  <2> QED
    BY <2>5, <2>6
<1>5. ASSUME NEW c \in Clients, DownloadAnswered(c) PROVE LateOnce' /\ LatenessIsBounded'
  BY <1>5 DEF DownloadAnswered, Answered, Unless, To, server
<1>6. ASSUME NEW c \in Clients, DeleteAnswered(c) PROVE LateOnce' /\ LatenessIsBounded'
  BY <1>6 DEF DeleteAnswered, Answered, To, server
<1>7. ASSUME NEW c \in Clients, CallFails(c) PROVE LateOnce' /\ LatenessIsBounded'
  BY <1>7 DEF CallFails, To, server
<1>8. ASSUME NEW c \in Clients, PostServed(c) PROVE LateOnce' /\ LatenessIsBounded'
  BY <1>8 DEF PostServed, Called, Reply, Rest, Server!Accept, Server!Become
<1>9. ASSUME NEW c \in Clients, PollServed(c) PROVE LateOnce' /\ LatenessIsBounded'
  BY <1>9 DEF PollServed, Called, Reply, Rest, server
<1>10. ASSUME NEW c \in Clients, DownloadServed(c) PROVE LateOnce' /\ LatenessIsBounded'
  BY <1>10 DEF DownloadServed, Called, Reply, Rest, server
<1>11. ASSUME NEW c \in Clients, DeleteServed(c) PROVE LateOnce' /\ LatenessIsBounded'
  BY <1>11 DEF DeleteServed, Called, Reply, Rest, Server!Forget, Server!Become
<1>12. ASSUME NEW c \in Clients, Refuses(c) \/ AnswersUnknown(c)
       PROVE LateOnce' /\ LatenessIsBounded'
  BY <1>12 DEF Refuses, AnswersUnknown, Called, Reply, Rest, server
<1>13. ASSUME NEW c \in Clients, Ends(c, "done") \/ Ends(c, "failed")
       PROVE LateOnce' /\ LatenessIsBounded'
  BY <1>13 DEF Ends, To, server
<1>14. ASSUME NEW j \in Jobs, Works(j) \/ Reaps(j) PROVE LateOnce' /\ LatenessIsBounded'
  BY <1>14 DEF Works, Reaps, Rest, Server!Start, Server!Settle, Server!Forget, Server!Become
<1> QED
  BY <1>0, <1>1, <1>2, <1>3, <1>4, <1>5, <1>6, <1>7, <1>8, <1>9, <1>10, <1>11, <1>12, <1>13, <1>14
     DEF ExchangeNext, ClientSteps, Serves, Disturbs

-----------------------------------------------------------------------------
(* The screens. *)

(* What a screen shows agrees with where its exchange is. *)
ScreensAgree ==
  /\ ~web.processing => pc[Web] = "idle"
  /\ pc[Desktop] # "idle" => desk.task # NoTask /\ desk.task.remote
  /\ desk.dialog # NoDialog => desk.task = NoTask

ScreenTypeOK ==
  /\ web \in [picked : Items \union {None}, reading : SUBSET Folders, processing : BOOLEAN,
              result : BOOLEAN]
  /\ desk \in [mode : Modes, path : Items \union {None}, dialog : Dialogs, task : Tasks,
               result : BOOLEAN]

(* Every step of the screens is one of the exchange, or leaves it alone. *)
LEMMA StepsExchange == [Next]_vars => [ExchangeNext]_exchange
<1> SUFFICES ASSUME [Next]_vars PROVE [ExchangeNext]_exchange
  OBVIOUS
<1>1. Web \in Clients /\ Desktop \in Clients
  BY ScreensAssumption
<1>2. CASE UNCHANGED vars
  BY <1>2 DEF vars
<1>3. CASE WebSteps
  BY <1>1, <1>3
     DEF WebSteps, TakeFile, TakeFolder, FolderIsRead, FolderCannotBeRead, Start, WebGets,
         WebFails, Reset, ExchangeNext
<1>4. CASE DeskSteps
  BY <1>1, <1>4
     DEF DeskSteps, Drop, Browse, SetMode, Click, Compress, ResetDesk, Cancel, Extract, TaskEnds,
         RemoteEnds, ExchangeNext
<1>5. CASE ExchangeSteps
  BY <1>5 DEF ExchangeSteps, ExchangeNext
<1> QED
  BY <1>2, <1>3, <1>4, <1>5 DEF Next

(* The exchange keeps its invariant under every step of either screen. *)
LEMMA ExchangeInvHolds == Spec => []ExchangeInv
<1>1. Init => ExchangeInv
  <2> SUFFICES ASSUME Init PROVE ExchangeInv
    OBVIOUS
  <2> USE DEF Init, ExchangeInit, Server!Init
  <2>1. FirstDelay \in FirstDelay..MaxDelay /\ 0 \in 0..MaxFaults /\ 0 <= MaxDelay
    BY DelayAssumption, FaultAssumption
  <2>2. ExchangeTypeOK
    BY <2>1 DEF ExchangeTypeOK, Server!States
  <2>3. JobsAreMade /\ JobsAreApart /\ DeletersHold /\ DeletedOnlyOnceHeld
    BY DEF JobsAreMade, JobsAreApart, DeletersHold, DeletedOnlyOnceHeld
  <2>4. LateOnce /\ LatenessIsBounded
    BY <2>1 DEF LateOnce, LatenessIsBounded
  <2> QED
    BY <2>2, <2>3, <2>4 DEF ExchangeInv
<1>2. ExchangeInv /\ [Next]_vars => ExchangeInv'
  <2> SUFFICES ASSUME ExchangeInv, [Next]_vars PROVE ExchangeInv'
    OBVIOUS
  <2>1. [ExchangeNext]_exchange
    BY StepsExchange
  <2>2. ExchangeTypeOK'
    BY <2>1, ExchangeTypes DEF ExchangeInv
  <2> QED
    BY <2>1, <2>2, JobsKeep, DeletesKeep, LatenessKeeps DEF ExchangeInv
<1> QED
  BY <1>1, <1>2, PTL DEF Spec

(* A job that is gone, and that the reaper did not take, was deleted by the
   client it was made for, with the archive in hand (remote_compress). *)
THEOREM JobsAreDeletedOnceHeld == Spec => []DeletedOnlyOnceHeld
<1>1. ExchangeInv => DeletedOnlyOnceHeld
  BY DEF ExchangeInv
<1> QED
  BY <1>1, ExchangeInvHolds, PTL

(* Whatever the delays, no wait outlasts its job by more than the ceiling. *)
THEOREM WaitsEndInTime == Spec => []LatenessIsBounded
<1>1. ExchangeInv => LatenessIsBounded
  BY DEF ExchangeInv
<1> QED
  BY <1>1, ExchangeInvHolds, PTL

(* The screens stay well typed, and an extraction keeps its archive. *)
LEMMA ScreensKeep ==
  ScreenTypeOK /\ ScreensAgree /\ ExtractionKeepsItsArchive /\ [Next]_vars
    => ScreenTypeOK' /\ ExtractionKeepsItsArchive'
<1> SUFFICES ASSUME ScreenTypeOK, ScreensAgree, ExtractionKeepsItsArchive, [Next]_vars
             PROVE  ScreenTypeOK' /\ ExtractionKeepsItsArchive'
  OBVIOUS
<1> USE ScreensAssumption DEF ScreenTypeOK, ExtractionKeepsItsArchive
<1>1. CASE UNCHANGED <<web, desk>>
  BY <1>1
<1>2. CASE WebSteps
  <2>1. ASSUME NEW i \in Items, TakeFile(i) \/ TakeFolder(i)
        PROVE  ScreenTypeOK' /\ ExtractionKeepsItsArchive'
    <3>1. CASE TakeFile(i)
      BY <3>1 DEF TakeFile, Cleared
    <3>2. CASE TakeFolder(i)
      <4>1. web.reading \union {i} \in SUBSET Folders
        BY <3>2 DEF TakeFolder
      <4>2. web' = [web EXCEPT !.picked = None, !.result = FALSE, !.reading = @ \union {i}]
        BY <3>2 DEF TakeFolder, Cleared
      <4> QED
        BY <3>2, <4>1, <4>2 DEF TakeFolder
    <3> QED
      BY <2>1, <3>1, <3>2
  <2>2. ASSUME NEW i \in Items, FolderIsRead(i) \/ FolderCannotBeRead(i)
        PROVE  ScreenTypeOK' /\ ExtractionKeepsItsArchive'
    BY <2>2 DEF FolderIsRead, FolderCannotBeRead
  <2>3. CASE Start \/ WebGets \/ WebFails \/ Reset
    BY <2>3 DEF Start, WebGets, WebFails, Reset, Cleared
  <2> QED
    BY <1>2, <2>1, <2>2, <2>3 DEF WebSteps
<1>3. CASE DeskSteps
  <2>1. ASSUME NEW i \in Items, Drop(i) \/ Browse(i)
        PROVE  ScreenTypeOK' /\ ExtractionKeepsItsArchive'
    BY <2>1 DEF Drop, Browse, Picks, Modes
  <2>2. ASSUME NEW m \in Modes, SetMode(m)
        PROVE  ScreenTypeOK' /\ ExtractionKeepsItsArchive'
    BY <2>2 DEF SetMode
  <2>3. ASSUME NEW m \in Modes, Click(m)
        PROVE  ScreenTypeOK' /\ ExtractionKeepsItsArchive'
    BY <2>3 DEF Click, Working, Dialogs
  <2>4. CASE ResetDesk \/ Cancel
    BY <2>4 DEF ResetDesk, Cancel, Dialogs, NoDialog
  <2>5. NoDialog \in Dialogs
    BY DEF NoDialog, Dialogs
  <2>6. ASSUME desk.dialog.op # "none" PROVE desk.dialog.item \in Items
    BY <2>6 DEF Dialogs
  <2>7. ASSUME NEW remote \in BOOLEAN, Compress(remote)
        PROVE  ScreenTypeOK' /\ ExtractionKeepsItsArchive'
    <3>1. desk.dialog.item \in Items
      BY <2>6, <2>7 DEF Compress
    <3>2. [op |-> "compress", item |-> desk.path, asked |-> desk.dialog.item, remote |-> remote]
            \in Tasks
      BY <3>1 DEF Tasks, Modes
    <3> QED
      BY <2>5, <2>7, <3>2 DEF Compress, Invoked
  <2>8. CASE Extract
    <3>1. desk.dialog.item \in Items
      BY <2>6, <2>8 DEF Extract
    <3>2. [op |-> "extract", item |-> desk.dialog.item, asked |-> desk.dialog.item,
           remote |-> FALSE] \in Tasks
      BY <3>1 DEF Tasks, Modes
    <3> QED
      BY <2>5, <2>8, <3>2 DEF Extract, Invoked
  <2>9. ASSUME NEW ok \in BOOLEAN, desk' = Outcome(ok), web' = web
        PROVE  ScreenTypeOK' /\ ExtractionKeepsItsArchive'
    <3>1. NoTask \in Tasks /\ (desk.result \/ ok) \in BOOLEAN /\ NoTask.op # "extract"
      BY DEF NoTask, Tasks
    <3> QED
      BY <2>9, <3>1 DEF Outcome
  <2>10. CASE TaskEnds \/ RemoteEnds
    BY <2>9, <2>10 DEF TaskEnds, RemoteEnds
  <2> QED
    BY <1>3, <2>1, <2>2, <2>3, <2>4, <2>7, <2>8, <2>10 DEF DeskSteps
<1> QED
  BY <1>1, <1>2, <1>3 DEF Next, vars

(* An exchange that is under way is on its screen. *)
LEMMA ScreensAgreeKeeps ==
  ExchangeTypeOK /\ ScreenTypeOK /\ ScreensAgree /\ [Next]_vars => ScreensAgree'
<1> SUFFICES ASSUME ExchangeTypeOK, ScreenTypeOK, ScreensAgree, [Next]_vars PROVE ScreensAgree'
  OBVIOUS
<1>0. /\ Web \in Clients /\ Desktop \in Clients /\ Web # Desktop
      /\ pc \in [Clients -> Calls \union {"idle", "sleeping", "done", "failed"}]
      /\ web \in [picked : Items \union {None}, reading : SUBSET Folders,
                  processing : BOOLEAN, result : BOOLEAN]
      /\ desk \in [mode : Modes, path : Items \union {None}, dialog : Dialogs, task : Tasks,
                   result : BOOLEAN]
  BY ScreensAssumption DEF ExchangeTypeOK, ScreenTypeOK
<1> USE DEF ScreensAgree
<1>1. CASE UNCHANGED vars
  BY <1>1 DEF vars, exchange
<1>2. CASE WebSteps
  <2>1. ASSUME NEW i \in Items,
               TakeFile(i) \/ TakeFolder(i) \/ FolderIsRead(i) \/ FolderCannotBeRead(i)
        PROVE  ScreensAgree'
    BY <1>0, <2>1 DEF TakeFile, TakeFolder, FolderIsRead, FolderCannotBeRead, Cleared, exchange
  <2>2. CASE Start
    BY <1>0, <2>2 DEF Start, Begin, To
  <2>3. CASE WebGets \/ WebFails
    BY <1>0, <2>3 DEF WebGets, WebFails, Ends, To
  <2>4. CASE Reset
    BY <1>0, <2>4 DEF Reset, Cleared, exchange
  <2> QED
    BY <1>2, <2>1, <2>2, <2>3, <2>4 DEF WebSteps
<1>3. CASE DeskSteps
  <2>1. ASSUME NEW i \in Items, Drop(i) \/ Browse(i) PROVE ScreensAgree'
    BY <1>0, <2>1 DEF Drop, Browse, Picks, exchange
  <2>2. ASSUME NEW m \in Modes, SetMode(m) \/ Click(m) PROVE ScreensAgree'
    BY <1>0, <2>2 DEF SetMode, Click, Processing, exchange
  <2>3. CASE ResetDesk \/ Cancel
    BY <1>0, <2>3 DEF ResetDesk, Cancel, exchange
  <2>4. ASSUME NEW op \in Modes, NEW i, NEW remote \in BOOLEAN,
               desk.dialog.op = op, desk' = Invoked(op, i, remote)
        PROVE  /\ desk.task = NoTask /\ pc[Desktop] = "idle"
               /\ desk'.dialog = NoDialog
               /\ desk'.task # NoTask /\ desk'.task.remote = remote
    <3>1. desk.dialog # NoDialog
      BY <2>4 DEF Modes, NoDialog
    <3>2. desk'.task = [op |-> op, item |-> i, asked |-> desk.dialog.item, remote |-> remote]
      BY <1>0, <2>4 DEF Invoked
    <3>3. desk'.task # NoTask
      BY <2>4, <3>2 DEF Modes, NoTask
    <3> QED
      BY <1>0, <2>4, <3>1, <3>2, <3>3 DEF Invoked
  <2>5. ASSUME NEW remote \in BOOLEAN, Compress(remote) PROVE ScreensAgree'
    <3>1. CASE remote
      BY <1>0, <2>4, <2>5, <3>1 DEF Compress, Begin, To, Modes
    <3>2. CASE ~remote
      BY <1>0, <2>4, <2>5, <3>2 DEF Compress, Modes, exchange
    <3> QED
      BY <3>1, <3>2
  <2>6. CASE Extract
    BY <1>0, <2>4, <2>6 DEF Extract, Modes, exchange
  <2>7. CASE TaskEnds
    BY <1>0, <2>7 DEF TaskEnds, Outcome, exchange
  <2>8. CASE RemoteEnds
    BY <1>0, <2>8 DEF RemoteEnds, Ends, To, Outcome
  <2> QED
    BY <1>3, <2>1, <2>2, <2>3, <2>5, <2>6, <2>7, <2>8 DEF DeskSteps
<1>4. CASE ExchangeSteps /\ UNCHANGED <<web, desk>>
  <2>1. \A c \in Clients : pc[c] = "idle" => pc'[c] = "idle"
    BY <1>0, <1>4
       DEF ExchangeSteps, ClientSteps, Serves, Disturbs, PostAnswered, PollAnswered, Wake,
           DownloadAnswered, DeleteAnswered, Answered, Unless, To, PostServed, PollServed,
           DownloadServed, DeleteServed, Rest, CallFails, Calls, Refuses, AnswersUnknown,
           Works, Reaps
  <2> QED
    BY <1>0, <1>4, <2>1
<1> QED
  BY <1>1, <1>2, <1>3, <1>4 DEF Next

ScreensInv ==
  ExchangeInv /\ user \in Clients /\ ScreenTypeOK /\ ScreensAgree /\ ExtractionKeepsItsArchive

(* The exchange and what the screens say of it, together. *)
LEMMA ScreensInvHolds == Spec => []ScreensInv
<1>1. Init /\ ExchangeInv => ScreensInv
  BY ScreensAssumption
     DEF Init, ExchangeInit, ScreensInv, ScreenTypeOK, ScreensAgree, ExtractionKeepsItsArchive,
         Modes, NoDialog, Dialogs, NoTask, Tasks
<1>2. ScreensInv /\ ExchangeInv' /\ [Next]_vars => ScreensInv'
  <2> SUFFICES ASSUME ScreensInv, ExchangeInv', [Next]_vars PROVE ScreensInv'
    OBVIOUS
  <2>1. ExchangeTypeOK /\ ScreenTypeOK /\ ScreensAgree /\ ExtractionKeepsItsArchive
    BY DEF ScreensInv, ExchangeInv
  <2>2. user' = user /\ user \in Clients
    BY DEF ScreensInv, Next, vars
  <2> QED
    BY <2>1, <2>2, ScreensKeep, ScreensAgreeKeeps DEF ScreensInv
<1> QED
  BY <1>1, <1>2, ExchangeInvHolds, PTL DEF Spec

(* Screens and exchange stay well typed. *)
THEOREM TypeCorrect == Spec => []TypeOK
<1>1. ScreensInv => TypeOK
  BY DEF ScreensInv, ExchangeInv, ScreenTypeOK, TypeOK
<1> QED
  BY <1>1, ScreensInvHolds, PTL

(* What is dropped onto the desktop while the dialog is open never becomes
   what the extraction asked about works on. *)
THEOREM ExtractionsKeepTheirArchive == Spec => []ExtractionKeepsItsArchive
<1>1. ScreensInv => ExtractionKeepsItsArchive
  BY DEF ScreensInv
<1> QED
  BY <1>1, ScreensInvHolds, PTL

(* No screen starts an exchange over one that it has not seen end. *)
THEOREM ExchangesAreNotAbandoned == Spec => NoExchangeIsAbandoned
<1> DEFINE Kept == \A c \in Clients :
             (pc[c] # "idle" /\ mine'[c] # mine[c]) => (pc[c] = "posting" /\ mine[c] = None)
<1>1. ScreensInv /\ [Next]_vars => [Kept]_vars
  <2> SUFFICES ASSUME ScreensInv, [Next]_vars PROVE Kept \/ UNCHANGED vars
    OBVIOUS
  <2>0. /\ ExchangeTypeOK /\ JobsAreMade /\ ScreensAgree
        /\ Web \in Clients /\ Desktop \in Clients
    BY ScreensAssumption DEF ScreensInv, ExchangeInv
  <2>1. ASSUME mine' = mine PROVE Kept
    BY <2>1
  <2>2. ASSUME NEW c \in Clients, pc[c] = "idle", mine' = [mine EXCEPT ![c] = None]
        PROVE  Kept
    BY <2>0, <2>2 DEF ExchangeTypeOK
  <2>3. CASE WebSteps
    <3>1. CASE Start
      BY <2>0, <2>2, <3>1 DEF Start, Begin, ScreensAgree
    <3> QED
      BY <2>1, <2>3, <3>1
         DEF WebSteps, TakeFile, TakeFolder, FolderIsRead, FolderCannotBeRead, WebGets, WebFails,
             Ends, Reset, exchange
  <2>4. CASE DeskSteps
    <3>1. ASSUME NEW remote \in BOOLEAN, Compress(remote) PROVE Kept
      <4>1. desk.dialog # NoDialog
        BY <3>1 DEF Compress, NoDialog
      <4>2. pc[Desktop] = "idle"
        BY <4>1 , <2>0 DEF ScreensAgree
      <4> QED
        BY <2>0, <2>1, <2>2, <3>1, <4>2 DEF Compress, Begin, exchange
    <3> QED
      BY <2>1, <2>4, <3>1
         DEF DeskSteps, Drop, Browse, SetMode, Click, ResetDesk, Cancel, Extract, TaskEnds,
             RemoteEnds, Ends, exchange
  <2>5. CASE ExchangeSteps
    <3>1. ASSUME NEW c \in Clients, PostServed(c) PROVE Kept
      BY <2>0, <3>1 DEF PostServed, Called, JobsAreMade, ExchangeTypeOK
    <3> QED
      BY <2>1, <2>5, <3>1
         DEF ExchangeSteps, ClientSteps, Serves, Disturbs, PostAnswered, PollAnswered, Wake,
             DownloadAnswered, DeleteAnswered, PollServed, DownloadServed, DeleteServed,
             CallFails, Refuses, AnswersUnknown, Works, Reaps
  <2> QED
    BY <2>3, <2>4, <2>5 DEF Next
<1> QED
  BY <1>1, ScreensInvHolds, PTL DEF Spec, NoExchangeIsAbandoned

=============================================================================
