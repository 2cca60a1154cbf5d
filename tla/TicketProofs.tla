---------------------------- MODULE TicketProofs ----------------------------
(***************************************************************************)
(* Proofs about TicketCustody and TicketSales, two specifications with     *)
(* variables of their own.                                                 *)
(*                                                                         *)
(* TicketCustody, for any number of persons, tickets and calls: the type   *)
(* invariant, the three invariants that hold although calls overlap, and   *)
(* the two that hold until two calls about check-ins overlap.              *)
(*                                                                         *)
(* The inductive invariant of the first adds two facts about the control   *)
(* of a call (it has answered, or created a check-in, only when it is      *)
(* done) and one that ties the answers to the tokens: the token of a       *)
(* claimed ticket is burnt. That of the others, Serial, says what a call   *)
(* about check-ins that is alone may rely on: what it read is still so     *)
(* when it writes.                                                         *)
(*                                                                         *)
(* TicketSales, for any finite number of purchases, any quantities, caps   *)
(* and credits: the type invariant, the cap of the presale, the credits of *)
(* the pass, and that an undisturbed order is created within its cap. The  *)
(* inductive invariant adds that what an undisturbed purchase has counted  *)
(* covers what is there, and that the undisturbed orders fit the presale   *)
(* whatever became of the others.                                          *)
(***************************************************************************)
EXTENDS TicketCustody, TicketSales, FiniteSetTheorems, TLAPS

\* A call that is not done has neither answered nor created a check-in.
DoneOrNothing ==
    \A k \in Call : pc[k] # "done" => answer[k] = "none" /\ ~entry[k].exists

\* The link of a claimed ticket is burnt.
ClaimedIsBurnt == \A k \in Call : Did(k, "claim") => job[k].ticket \notin token

IInv ==
    /\ TypeOK
    /\ DoneOrNothing
    /\ ClaimedIsBurnt
    /\ OneClaimPerTicket
    /\ TokenOnlyWithBuyer
    /\ UsedTicketHasEntry

\* The call reads or writes check-ins, and it has not answered yet.
AtWork(k) == InProgress(k) /\ job[k].kind \in AtDoor

\* Calls about check-ins follow one another.
OneAtWork == \A j, k \in Call : AtWork(j) /\ AtWork(k) => j = k

\* What a scan read is still so when it writes: nobody let the person in, ...
ScanStillFree ==
    \A k, e \in Call :
        (/\ AtWork(k) /\ job[k].kind = "scan"
         /\ entry[e].exists /\ entry[e].person = job[k].who) => entry[e].out

\* ... and nobody used the ticket that it found.
PassStillActive ==
    \A k \in Call :
        (AtWork(k) /\ pc[k] = "resolved" /\ job[k].ticket # NoTicket)
            => status[job[k].ticket] = "ACTIVE"

\* The check-in that a void read stands until it is voided.
VoidedStillStands ==
    \A k \in Call : AtWork(k) /\ job[k].kind = "void" => job[k].entry \in Standing

\* The ticket of a check-in that stands is USED.
StandingUsesItsPass ==
    \A k \in Standing : entry[k].pass # NoTicket => status[entry[k].pass] = "USED"

OnePerPass ==
    \A j, k \in Standing :
        (entry[j].pass = entry[k].pass /\ entry[j].pass # NoTicket) => j = k

Serial ==
    /\ OneAtWork
    /\ ScanStillFree
    /\ PassStillActive
    /\ VoidedStillStands
    /\ StandingUsesItsPass
    /\ OnePerPass
    /\ OnceInside

-----------------------------------------------------------------------------
\* The request and the check-in a call starts with have their types.
LEMMA NoJobTyped == NoJob \in Job /\ NoEntry \in Entry /\ ~NoEntry.exists
<1>1. Anybody \in Person
  BY CustodyAssumption DEF Anybody
<1>2. QED
  BY <1>1 DEF NoJob, NoEntry, Job, Entry, Kind

\* The initial state satisfies the invariant.
LEMMA InitInv == Init => IInv
<1> SUFFICES ASSUME Init PROVE IInv
  OBVIOUS
<1>1. TypeOK
  BY NoJobTyped, CustodyAssumption DEF Init, TypeOK
<1>2. DoneOrNothing /\ ClaimedIsBurnt /\ OneClaimPerTicket
  BY NoJobTyped DEF Init, DoneOrNothing, ClaimedIsBurnt, OneClaimPerTicket, Did
<1>3. TokenOnlyWithBuyer /\ UsedTicketHasEntry
  BY CustodyAssumption DEF Init, TokenOnlyWithBuyer, UsedTicketHasEntry
<1>4. QED
  BY <1>1, <1>2, <1>3 DEF IInv

-----------------------------------------------------------------------------
\* A call starts: it gets its request, and nothing else changes.
LEMMA StartKeepsInv ==
    ASSUME IInv, NEW k \in Call, NEW request \in Job, Start(k, request)
    PROVE  IInv'
<1> USE DEF IInv
<1>1. TypeOK'
  BY DEF TypeOK, Start, Goto, ticketVars, InProgress
<1>2. DoneOrNothing'
  BY DEF TypeOK, DoneOrNothing, Start, Goto
<1>3. answer[k] = "none" /\ answer' = answer /\ token' = token
  BY DEF Start, DoneOrNothing, ticketVars
<1>4. \A j \in Call \ {k} : job'[j] = job[j]
  BY DEF TypeOK, Start
<1>5. ClaimedIsBurnt' /\ OneClaimPerTicket'
  BY <1>3, <1>4 DEF ClaimedIsBurnt, OneClaimPerTicket, Did
<1>6. TokenOnlyWithBuyer' /\ UsedTicketHasEntry'
  BY DEF Start, ticketVars, TokenOnlyWithBuyer, UsedTicketHasEntry, Standing
<1>7. QED
  BY <1>1, <1>2, <1>5, <1>6

\* What an answer changes: one call, from "not done" to "done".
LEMMA AnswerFrame ==
    ASSUME TypeOK, NEW k \in Call, NEW a \in {"ok", "refused", "duplicate"},
           Answer(k, a)
    PROVE  /\ pc' \in [Call -> {"idle", "read", "resolved", "done"}]
           /\ answer' \in [Call -> {"none", "ok", "refused", "duplicate"}]
           /\ raced' = raced
           /\ pc'[k] = "done" /\ answer'[k] = a
           /\ \A j \in Call \ {k} : pc'[j] = pc[j] /\ answer'[j] = answer[j]
  BY DEF TypeOK, Answer, Goto

\* A call that answers without creating or voiding a check-in, and without
\* claiming, keeps the control invariant and the claims.
LEMMA AnswerKeepsClaims ==
    ASSUME IInv, NEW k \in Call, NEW a \in {"ok", "refused", "duplicate"},
           Answer(k, a), \A j \in Call \ {k} : job'[j] = job[j],
           a = "ok" => job'[k].kind # "claim",
           token' \subseteq token
    PROVE  ClaimedIsBurnt' /\ OneClaimPerTicket'
<1>1. /\ answer'[k] = a
      /\ \A j \in Call \ {k} : answer'[j] = answer[j]
  BY AnswerFrame DEF IInv
<1>2. \A j \in Call : Did(j, "claim")' => j # k /\ Did(j, "claim")
  BY <1>1 DEF Did
<1>3. QED
  BY <1>2 DEF IInv, ClaimedIsBurnt, OneClaimPerTicket, Did

-----------------------------------------------------------------------------
\* The step of a claim: the first one burns the token, a later one is refused.
LEMMA WriteClaimKeepsInv ==
    ASSUME IInv, NEW k \in Call, WriteClaim(k)
    PROVE  IInv'
<1> DEFINE t == job[k].ticket
<1> USE DEF IInv
<1>1. PICK a \in {"ok", "refused"} : Answer(k, a) /\ (a = "ok" <=> t \in token)
  BY DEF WriteClaim
<1>2. /\ pc' \in [Call -> {"idle", "read", "resolved", "done"}]
      /\ answer' \in [Call -> {"none", "ok", "refused", "duplicate"}]
      /\ raced' = raced
      /\ pc'[k] = "done" /\ answer'[k] = a
      /\ \A j \in Call \ {k} : pc'[j] = pc[j] /\ answer'[j] = answer[j]
  BY <1>1, AnswerFrame
<1>3. status' = status /\ entry' = entry /\ job' = job /\ pc[k] = "read"
  BY DEF WriteClaim
<1>4. token' = token \ {t}
  BY DEF WriteClaim
<1>5. job[k] \in Job /\ job[k].who \in Person
  BY DEF TypeOK, Job
<1>6. owner' \in [Ticket -> Person] /\ \A x \in Ticket : x # t => owner'[x] = owner[x]
  BY <1>5 DEF WriteClaim, TypeOK
<1>7. TypeOK'
  BY <1>2, <1>3, <1>4, <1>6 DEF TypeOK
<1>8. DoneOrNothing'
  BY <1>2, <1>3 DEF DoneOrNothing
<1>9. \A j \in Call : Did(j, "claim")' => j = k \/ Did(j, "claim")
  BY <1>2, <1>3 DEF Did
<1>10. ClaimedIsBurnt'
  BY <1>3, <1>4, <1>9 DEF ClaimedIsBurnt
<1>11. \A j \in Call : (Did(j, "claim") /\ Did(k, "claim")' /\ j # k) => job[j].ticket # t
  BY <1>1, <1>2 DEF ClaimedIsBurnt, Did
<1>12. OneClaimPerTicket'
  BY <1>3, <1>9, <1>11 DEF OneClaimPerTicket
<1>13. TokenOnlyWithBuyer'
  BY <1>4, <1>6, CustodyAssumption DEF TokenOnlyWithBuyer, TypeOK
<1>14. UsedTicketHasEntry'
  BY <1>3 DEF UsedTicketHasEntry, Standing
<1>15. QED
  BY <1>7, <1>8, <1>10, <1>12, <1>13, <1>14

\* A transfer burns the token, whoever it takes the ticket from.
LEMMA WriteTransferKeepsInv ==
    ASSUME IInv, NEW k \in Call, WriteTransfer(k)
    PROVE  IInv'
<1> DEFINE t == job[k].ticket
<1> USE DEF IInv
<1>1. Answer(k, "ok")
  BY DEF WriteTransfer
<1>2. /\ pc' \in [Call -> {"idle", "read", "resolved", "done"}]
      /\ answer' \in [Call -> {"none", "ok", "refused", "duplicate"}]
      /\ raced' = raced
      /\ pc'[k] = "done"
      /\ \A j \in Call \ {k} : pc'[j] = pc[j] /\ answer'[j] = answer[j]
  BY <1>1, AnswerFrame
<1>3. /\ status' = status /\ entry' = entry /\ job' = job
      /\ token' = token \ {t} /\ job[k].kind = "transfer"
  BY DEF WriteTransfer
<1>4. job[k] \in Job /\ job[k].to \in Person
  BY DEF TypeOK, Job
<1>5. owner' \in [Ticket -> Person] /\ \A x \in Ticket : x # t => owner'[x] = owner[x]
  BY <1>4 DEF WriteTransfer, TypeOK
<1>6. TypeOK'
  BY <1>2, <1>3, <1>5 DEF TypeOK
<1>7. DoneOrNothing'
  BY <1>2, <1>3 DEF DoneOrNothing
<1>8. ClaimedIsBurnt' /\ OneClaimPerTicket'
  BY <1>1, <1>3, AnswerKeepsClaims
<1>9. TokenOnlyWithBuyer'
  BY <1>3, <1>5, CustodyAssumption DEF TokenOnlyWithBuyer, TypeOK
<1>10. UsedTicketHasEntry'
  BY <1>3 DEF UsedTicketHasEntry, Standing
<1>11. QED
  BY <1>6, <1>7, <1>8, <1>9, <1>10

-----------------------------------------------------------------------------
\* A scan of somebody who is already inside only answers.
LEMMA RefuseDuplicateKeepsInv ==
    ASSUME IInv, NEW k \in Call, NEW p \in Person, RefuseDuplicate(k, p)
    PROVE  IInv'
<1> USE DEF IInv
<1>1. Answer(k, "duplicate") /\ UNCHANGED <<owner, token, status, entry>>
  BY DEF RefuseDuplicate, ticketVars
<1>2. /\ pc' \in [Call -> {"idle", "read", "resolved", "done"}]
      /\ answer' \in [Call -> {"none", "ok", "refused", "duplicate"}]
      /\ raced' = raced
      /\ pc'[k] = "done"
      /\ \A j \in Call \ {k} : pc'[j] = pc[j] /\ answer'[j] = answer[j]
  BY <1>1, AnswerFrame
<1>3. [NoJob EXCEPT !.kind = "scan", !.who = p] \in Job
  BY NoJobTyped DEF Job, Kind
<1>4. job' \in [Call -> Job] /\ \A j \in Call \ {k} : job'[j] = job[j]
  BY <1>3 DEF RefuseDuplicate, TypeOK
<1>5. TypeOK'
  BY <1>1, <1>2, <1>4 DEF TypeOK
<1>6. DoneOrNothing'
  BY <1>1, <1>2 DEF DoneOrNothing
<1>7. ClaimedIsBurnt' /\ OneClaimPerTicket'
  BY <1>1, <1>4, AnswerKeepsClaims
<1>8. TokenOnlyWithBuyer' /\ UsedTicketHasEntry'
  BY <1>1 DEF TokenOnlyWithBuyer, UsedTicketHasEntry, Standing
<1>9. QED
  BY <1>5, <1>6, <1>7, <1>8

\* A scan finds a ticket.
LEMMA ResolvePassKeepsInv ==
    ASSUME IInv, NEW k \in Call, ResolvePass(k)
    PROVE  IInv'
<1> USE DEF IInv
<1>1. PICK t \in Ticket \cup {NoTicket} : job' = [job EXCEPT ![k].ticket = t]
  BY DEF ResolvePass, Passes
<1>2. /\ pc[k] = "read" /\ job[k].kind = "scan"
      /\ pc' = [pc EXCEPT ![k] = "resolved"]
      /\ UNCHANGED <<owner, token, status, entry, answer, raced>>
  BY DEF ResolvePass, Goto, ticketVars
<1>3. job[k] \in Job
  BY DEF TypeOK
<1>4. /\ job' \in [Call -> Job]
      /\ \A j \in Call : job'[j].kind = job[j].kind
      /\ \A j \in Call \ {k} : job'[j] = job[j]
  BY <1>1, <1>3 DEF TypeOK, Job
<1>5. TypeOK'
  BY <1>2, <1>4 DEF TypeOK
<1>6. DoneOrNothing'
  BY <1>2 DEF DoneOrNothing, TypeOK
<1>7. \A j \in Call : Did(j, "claim")' => j # k /\ Did(j, "claim")
  BY <1>2, <1>4 DEF Did
<1>8. ClaimedIsBurnt' /\ OneClaimPerTicket'
  BY <1>2, <1>4, <1>7 DEF ClaimedIsBurnt, OneClaimPerTicket
<1>9. TokenOnlyWithBuyer' /\ UsedTicketHasEntry'
  BY <1>2 DEF TokenOnlyWithBuyer, UsedTicketHasEntry, Standing
<1>10. QED
  BY <1>5, <1>6, <1>8, <1>9

\* A new check-in stands, and it is the one that its ticket is USED by.
LEMMA CreateCheckinKeepsInv ==
    ASSUME IInv, NEW k \in Call, CreateCheckin(k)
    PROVE  IInv'
<1> DEFINE t == job[k].ticket
           e == [NoEntry EXCEPT !.exists = TRUE, !.person = job[k].who, !.pass = t]
<1> USE DEF IInv
<1>1. /\ Answer(k, "ok") /\ pc[k] = "resolved" /\ job[k].kind = "scan"
      /\ entry' = [entry EXCEPT ![k] = e]
      /\ status' = [x \in Ticket |-> IF x = t THEN "USED" ELSE status[x]]
      /\ UNCHANGED <<owner, token, job>>
  BY DEF CreateCheckin
<1>2. /\ pc' \in [Call -> {"idle", "read", "resolved", "done"}]
      /\ answer' \in [Call -> {"none", "ok", "refused", "duplicate"}]
      /\ raced' = raced
      /\ pc'[k] = "done"
      /\ \A j \in Call \ {k} : pc'[j] = pc[j] /\ answer'[j] = answer[j]
  BY <1>1, AnswerFrame
<1>3. job[k] \in Job
  BY DEF TypeOK
<1>4. e \in Entry /\ e.exists /\ ~e.voided /\ e.pass = t
  BY <1>3, NoJobTyped DEF Job, Entry, NoEntry
<1>5. entry' \in [Call -> Entry] /\ entry'[k] = e
      /\ \A j \in Call \ {k} : entry'[j] = entry[j]
  BY <1>1, <1>4 DEF TypeOK
<1>6. TypeOK'
  BY <1>1, <1>2, <1>5 DEF TypeOK
<1>7. DoneOrNothing'
  BY <1>2, <1>5 DEF DoneOrNothing
<1>8. ClaimedIsBurnt' /\ OneClaimPerTicket'
  BY <1>1, AnswerKeepsClaims
<1>9. TokenOnlyWithBuyer'
  BY <1>1 DEF TokenOnlyWithBuyer
<1>10. k \notin Standing
  BY <1>1 DEF DoneOrNothing, Standing
<1>11. k \in Standing' /\ entry'[k].pass = t
  BY <1>4, <1>5 DEF Standing
<1>12. \A j \in Standing : j \in Standing' /\ entry'[j].pass = entry[j].pass
  BY <1>5, <1>10 DEF Standing
<1>13. \A x \in Ticket : status'[x] = "USED" => x = t \/ status[x] = "USED"
  BY <1>1
<1>14. UsedTicketHasEntry'
  BY <1>11, <1>12, <1>13 DEF UsedTicketHasEntry
<1>15. QED
  BY <1>6, <1>7, <1>8, <1>9, <1>14

-----------------------------------------------------------------------------
\* A void gives back the ticket of the check-in that it takes away.
LEMMA WriteVoidKeepsInv ==
    ASSUME IInv, NEW k \in Call, WriteVoid(k)
    PROVE  IInv'
<1> DEFINE e == job[k].entry
<1> USE DEF IInv
<1>1. /\ Answer(k, "ok") /\ job[k].kind = "void"
      /\ entry' = [entry EXCEPT ![e].voided = TRUE]
      /\ status' = [t \in Ticket |-> IF t = entry[e].pass THEN "ACTIVE" ELSE status[t]]
      /\ UNCHANGED <<owner, token, job>>
  BY DEF WriteVoid, Returned
<1>2. /\ pc' \in [Call -> {"idle", "read", "resolved", "done"}]
      /\ answer' \in [Call -> {"none", "ok", "refused", "duplicate"}]
      /\ raced' = raced
      /\ pc'[k] = "done"
      /\ \A j \in Call \ {k} : pc'[j] = pc[j] /\ answer'[j] = answer[j]
  BY <1>1, AnswerFrame
<1>3. /\ entry' \in [Call -> Entry]
      /\ \A j \in Call : entry'[j].exists = entry[j].exists
                         /\ entry'[j].pass = entry[j].pass
      /\ \A j \in Call \ {e} : entry'[j] = entry[j]
  <2>1. /\ \A j \in Call : entry[j] \in Entry
        /\ entry' = [j \in Call |-> IF j = e THEN [entry[j] EXCEPT !.voided = TRUE]
                                            ELSE entry[j]]
    BY <1>1 DEF TypeOK
  <2>2. \A x \in Entry : LET y == [x EXCEPT !.voided = TRUE]
                         IN  y \in Entry /\ y.exists = x.exists /\ y.pass = x.pass
    BY DEF Entry
  <2>3. QED
    BY <2>1, <2>2
<1>4. TypeOK'
  BY <1>1, <1>2, <1>3 DEF TypeOK
<1>5. DoneOrNothing'
  BY <1>2, <1>3 DEF DoneOrNothing
<1>6. ClaimedIsBurnt' /\ OneClaimPerTicket'
  BY <1>1, AnswerKeepsClaims
<1>7. TokenOnlyWithBuyer'
  BY <1>1 DEF TokenOnlyWithBuyer
<1>8. \A x \in Ticket : status'[x] = "USED" => status[x] = "USED" /\ x # entry[e].pass
  BY <1>1
<1>9. \A j \in Standing : j # e => j \in Standing' /\ entry'[j].pass = entry[j].pass
  BY <1>3 DEF Standing
<1>10. UsedTicketHasEntry'
  BY <1>8, <1>9 DEF UsedTicketHasEntry
<1>11. QED
  BY <1>4, <1>5, <1>6, <1>7, <1>10

\* A check-out leaves tickets, and which check-ins stand, alone.
LEMMA WriteOutKeepsInv ==
    ASSUME IInv, NEW k \in Call, WriteOut(k)
    PROVE  IInv'
<1> DEFINE e == job[k].entry
<1> USE DEF IInv
<1>1. /\ Answer(k, "ok") /\ job[k].kind = "out"
      /\ entry' = [entry EXCEPT ![e].out = TRUE]
      /\ UNCHANGED <<owner, token, status, job>>
  BY DEF WriteOut, ticketVars
<1>2. /\ pc' \in [Call -> {"idle", "read", "resolved", "done"}]
      /\ answer' \in [Call -> {"none", "ok", "refused", "duplicate"}]
      /\ raced' = raced
      /\ pc'[k] = "done"
      /\ \A j \in Call \ {k} : pc'[j] = pc[j] /\ answer'[j] = answer[j]
  BY <1>1, AnswerFrame
<1>3. /\ entry' \in [Call -> Entry]
      /\ \A j \in Call : entry'[j].exists = entry[j].exists
                         /\ entry'[j].pass = entry[j].pass
                         /\ entry'[j].voided = entry[j].voided
  <2>1. /\ \A j \in Call : entry[j] \in Entry
        /\ entry' = [j \in Call |-> IF j = e THEN [entry[j] EXCEPT !.out = TRUE]
                                            ELSE entry[j]]
    BY <1>1 DEF TypeOK
  <2>2. \A x \in Entry : LET y == [x EXCEPT !.out = TRUE]
                         IN  y \in Entry /\ y.exists = x.exists /\ y.pass = x.pass /\ y.voided = x.voided
    BY DEF Entry
  <2>3. QED
    BY <2>1, <2>2
<1>4. TypeOK'
  BY <1>1, <1>2, <1>3 DEF TypeOK
<1>5. DoneOrNothing'
  BY <1>2, <1>3 DEF DoneOrNothing
<1>6. ClaimedIsBurnt' /\ OneClaimPerTicket'
  BY <1>1, AnswerKeepsClaims
<1>7. TokenOnlyWithBuyer' /\ UsedTicketHasEntry'
  BY <1>1, <1>3 DEF TokenOnlyWithBuyer, UsedTicketHasEntry, Standing
<1>8. QED
  BY <1>4, <1>5, <1>6, <1>7

-----------------------------------------------------------------------------
\* The requests that the reads build have their type.
LEMMA ReadKeepsInv ==
    ASSUME IInv, NEW k \in Call,
           \/ \E p \in Person, t \in Ticket :
                ReadClaim(k, p, t) \/ \E q \in Person : ReadTransfer(k, p, q, t)
           \/ \E p \in Person : ReadOpen(k, p)
           \/ \E e \in Call : ReadVoid(k, e) \/ ReadOut(k, e)
    PROVE  IInv'
<1>1. SUFFICES \E request \in Job : Start(k, request)
  BY StartKeepsInv
<1>2. ASSUME NEW p \in Person, NEW t \in Ticket, ReadClaim(k, p, t)
      PROVE  \E request \in Job : Start(k, request)
  <2>1. [NoJob EXCEPT !.kind = "claim", !.who = p, !.ticket = t] \in Job
    BY NoJobTyped DEF Job, Kind
  <2>2. QED
    BY <1>2, <2>1 DEF ReadClaim
<1>3. ASSUME NEW p \in Person, NEW t \in Ticket, NEW q \in Person,
             ReadTransfer(k, p, q, t)
      PROVE  \E request \in Job : Start(k, request)
  <2>1. [NoJob EXCEPT !.kind = "transfer", !.who = p, !.to = q, !.ticket = t] \in Job
    BY NoJobTyped DEF Job, Kind
  <2>2. QED
    BY <1>3, <2>1 DEF ReadTransfer
<1>4. ASSUME NEW p \in Person, ReadOpen(k, p)
      PROVE  \E request \in Job : Start(k, request)
  <2>1. [NoJob EXCEPT !.kind = "scan", !.who = p] \in Job
    BY NoJobTyped DEF Job, Kind
  <2>2. QED
    BY <1>4, <2>1 DEF ReadOpen
<1>5. ASSUME NEW e \in Call, ReadVoid(k, e) \/ ReadOut(k, e)
      PROVE  \E request \in Job : Start(k, request)
  <2>1. /\ [NoJob EXCEPT !.kind = "void", !.entry = e] \in Job
        /\ [NoJob EXCEPT !.kind = "out", !.entry = e] \in Job
    BY NoJobTyped DEF Job, Kind
  <2>2. QED
    BY <1>5, <2>1 DEF ReadVoid, ReadOut
<1>6. QED
  BY <1>2, <1>3, <1>4, <1>5

\* Every step keeps the invariant.
LEMMA NextInv == IInv /\ [Next]_vars => IInv'
<1> SUFFICES ASSUME IInv, [Next]_vars PROVE IInv'
  OBVIOUS
<1>1. CASE UNCHANGED vars
  BY <1>1 DEF vars, IInv, TypeOK, DoneOrNothing, ClaimedIsBurnt, Did,
              OneClaimPerTicket, TokenOnlyWithBuyer, UsedTicketHasEntry, Standing
<1>2. CASE Next
  <2>1. PICK k \in Call :
           \/ \/ \E p \in Person, t \in Ticket :
                   ReadClaim(k, p, t) \/ \E q \in Person : ReadTransfer(k, p, q, t)
              \/ \E p \in Person : ReadOpen(k, p)
              \/ \E e \in Call : ReadVoid(k, e) \/ ReadOut(k, e)
           \/ WriteClaim(k) \/ WriteTransfer(k)
           \/ \E p \in Person : RefuseDuplicate(k, p)
           \/ ResolvePass(k) \/ CreateCheckin(k)
           \/ WriteVoid(k) \/ WriteOut(k)
    BY <1>2 DEF Next
  <2>2. QED
    BY <2>1, ReadKeepsInv, WriteClaimKeepsInv, WriteTransferKeepsInv,
       RefuseDuplicateKeepsInv, ResolvePassKeepsInv, CreateCheckinKeepsInv,
       WriteVoidKeepsInv, WriteOutKeepsInv
<1>3. QED
  BY <1>1, <1>2

-----------------------------------------------------------------------------
\* While no call about check-ins has raced another. A step that leaves the
\* check-ins and the tickets alone, and starts no such call, keeps all of it.
LEMMA CalmKeepsSerial ==
    ASSUME Serial, UNCHANGED <<status, entry>>,
           \A j \in Call : AtWork(j)' =>
               AtWork(j) /\ job'[j] = job[j] /\ pc'[j] = pc[j]
    PROVE  Serial'
<1> USE DEF Serial
<1>1. OneAtWork' /\ ScanStillFree' /\ PassStillActive'
  BY DEF OneAtWork, ScanStillFree, PassStillActive
<1>2. Standing' = Standing
  BY DEF Standing
<1>3. VoidedStillStands'
  BY <1>2 DEF VoidedStillStands
<1>4. StandingUsesItsPass' /\ OnePerPass' /\ OnceInside'
  BY <1>2 DEF StandingUsesItsPass, OnePerPass, OnceInside
<1>5. QED
  BY <1>1, <1>3, <1>4

\* Claims, transfers and refused scans answer without touching the check-ins.
LEMMA OthersKeepSerial ==
    ASSUME IInv, Serial, NEW k \in Call,
           \/ WriteClaim(k) \/ WriteTransfer(k)
           \/ \E p \in Person : RefuseDuplicate(k, p)
    PROVE  Serial'
<1>1. PICK a \in {"ok", "refused", "duplicate"} : Answer(k, a)
  BY DEF WriteClaim, WriteTransfer, RefuseDuplicate
<1>2. /\ pc'[k] = "done"
      /\ \A j \in Call \ {k} : pc'[j] = pc[j]
  BY <1>1, AnswerFrame DEF IInv
<1>3. UNCHANGED <<status, entry>> /\ \A j \in Call \ {k} : job'[j] = job[j]
  BY DEF WriteClaim, WriteTransfer, RefuseDuplicate, ticketVars, IInv, TypeOK
<1>4. \A j \in Call : AtWork(j)' => AtWork(j) /\ job'[j] = job[j] /\ pc'[j] = pc[j]
  BY <1>2, <1>3 DEF AtWork, InProgress
<1>5. QED
  BY <1>3, <1>4, CalmKeepsSerial

\* A call starts. If it is about check-ins and nothing has raced, it is the
\* only one at work.
LEMMA StartFrame ==
    ASSUME TypeOK, NEW k \in Call, NEW request \in Job, Start(k, request)
    PROVE  /\ job'[k] = request /\ pc'[k] = "read"
           /\ \A j \in Call \ {k} : job'[j] = job[j] /\ pc'[j] = pc[j]
           /\ UNCHANGED <<status, entry>>
           /\ ~raced' => ~raced
           /\ (~raced' /\ request.kind \in AtDoor) => \A j \in Call : ~AtWork(j)
  BY DEF TypeOK, Start, Goto, ticketVars, AtWork

\* A call about check-ins that starts alone, after what it read.
LEMMA AloneKeepsSerial ==
    ASSUME TypeOK, Serial, NEW k \in Call, NEW request \in Job, Start(k, request),
           ~raced', request.kind \in AtDoor,
           request.kind = "scan" => Open(request.who) = {},
           request.kind = "void" => request.entry \in Standing
    PROVE  Serial'
<1> USE DEF Serial
<1>1. /\ job'[k] = request /\ pc'[k] = "read"
      /\ \A j \in Call \ {k} : job'[j] = job[j] /\ pc'[j] = pc[j]
      /\ UNCHANGED <<status, entry>>
      /\ \A j \in Call : ~AtWork(j)
  BY StartFrame
<1>2. \A j \in Call : AtWork(j)' => j = k
  BY <1>1 DEF AtWork, InProgress
<1>3. OneAtWork'
  BY <1>2 DEF OneAtWork
<1>4. ScanStillFree'
  BY <1>1, <1>2 DEF ScanStillFree, Open
<1>5. PassStillActive'
  BY <1>1, <1>2 DEF PassStillActive
<1>6. Standing' = Standing
  BY <1>1 DEF Standing
<1>7. VoidedStillStands'
  BY <1>1, <1>2, <1>6 DEF VoidedStillStands
<1>8. StandingUsesItsPass' /\ OnePerPass' /\ OnceInside'
  BY <1>1, <1>6 DEF StandingUsesItsPass, OnePerPass, OnceInside
<1>9. QED
  BY <1>3, <1>4, <1>5, <1>7, <1>8

\* The first step of every call.
LEMMA ReadKeepsSerial ==
    ASSUME IInv, ~raced => Serial, ~raced', NEW k \in Call,
           \/ \E p \in Person, t \in Ticket :
                ReadClaim(k, p, t) \/ \E q \in Person : ReadTransfer(k, p, q, t)
           \/ \E p \in Person : ReadOpen(k, p)
           \/ \E e \in Call : ReadVoid(k, e) \/ ReadOut(k, e)
    PROVE  Serial'
<1> USE DEF IInv
<1>1. ASSUME NEW request \in Job, Start(k, request), request.kind \notin AtDoor
      PROVE  Serial'
  <2>1. /\ job'[k] = request /\ Serial /\ UNCHANGED <<status, entry>>
        /\ \A j \in Call \ {k} : job'[j] = job[j] /\ pc'[j] = pc[j]
    BY <1>1, StartFrame
  <2>2. \A j \in Call : AtWork(j)' => AtWork(j) /\ job'[j] = job[j] /\ pc'[j] = pc[j]
    BY <1>1, <2>1 DEF AtWork, InProgress
  <2>3. QED
    BY <2>1, <2>2, CalmKeepsSerial
<1>2. ASSUME NEW request \in Job, Start(k, request), request.kind \in AtDoor,
             request.kind = "scan" => Open(request.who) = {},
             request.kind = "void" => request.entry \in Standing
      PROVE  Serial'
  BY <1>2, StartFrame, AloneKeepsSerial
<1>3. ASSUME NEW p \in Person, NEW t \in Ticket, ReadClaim(k, p, t)
      PROVE  Serial'
  <2> DEFINE request == [NoJob EXCEPT !.kind = "claim", !.who = p, !.ticket = t]
  <2>1. request \in Job /\ request.kind \notin AtDoor
    BY NoJobTyped DEF Job, Kind, AtDoor
  <2>2. Start(k, request)
    BY <1>3 DEF ReadClaim
  <2> QED
    BY <2>1, <2>2, <1>1
<1>4. ASSUME NEW p \in Person, NEW t \in Ticket, NEW q \in Person,
             ReadTransfer(k, p, q, t)
      PROVE  Serial'
  <2> DEFINE request ==
        [NoJob EXCEPT !.kind = "transfer", !.who = p, !.to = q, !.ticket = t]
  <2>1. request \in Job /\ request.kind \notin AtDoor
    BY NoJobTyped DEF Job, Kind, AtDoor
  <2>2. Start(k, request)
    BY <1>4 DEF ReadTransfer
  <2> QED
    BY <2>1, <2>2, <1>1
<1>5. ASSUME NEW p \in Person, ReadOpen(k, p)
      PROVE  Serial'
  <2> DEFINE request == [NoJob EXCEPT !.kind = "scan", !.who = p]
  <2>1. /\ request \in Job /\ request.kind = "scan" /\ request.who = p
        /\ request.kind \in AtDoor
    BY NoJobTyped DEF Job, Kind, AtDoor
  <2>2. Start(k, request) /\ Open(p) = {}
    BY <1>5 DEF ReadOpen
  <2> QED
    BY <2>1, <2>2, <1>2
<1>6. ASSUME NEW e \in Call, ReadVoid(k, e)
      PROVE  Serial'
  <2> DEFINE request == [NoJob EXCEPT !.kind = "void", !.entry = e]
  <2>1. /\ request \in Job /\ request.kind = "void" /\ request.entry = e
        /\ request.kind \in AtDoor
    BY NoJobTyped DEF Job, Kind, AtDoor
  <2>2. Start(k, request) /\ e \in Standing
    BY <1>6 DEF ReadVoid, Standing
  <2> QED
    BY <2>1, <2>2, <1>2
<1>7. ASSUME NEW e \in Call, ReadOut(k, e)
      PROVE  Serial'
  <2> DEFINE request == [NoJob EXCEPT !.kind = "out", !.entry = e]
  <2>1. request \in Job /\ request.kind = "out" /\ request.kind \in AtDoor
    BY NoJobTyped DEF Job, Kind, AtDoor
  <2>2. Start(k, request)
    BY <1>7 DEF ReadOut
  <2> QED
    BY <2>1, <2>2, <1>2
<1>8. QED
  BY <1>3, <1>4, <1>5, <1>6, <1>7

\* A scan finds a ticket: an ACTIVE one, or none.
LEMMA ResolvePassKeepsSerial ==
    ASSUME IInv, Serial, NEW k \in Call, ResolvePass(k)
    PROVE  Serial'
<1> USE DEF IInv, Serial
<1>1. PICK t \in Ticket \cup {NoTicket} :
         /\ job' = [job EXCEPT ![k].ticket = t]
         /\ t # NoTicket => status[t] = "ACTIVE"
  BY DEF ResolvePass, Passes
<1>2. /\ pc[k] = "read" /\ job[k].kind = "scan"
      /\ pc' = [pc EXCEPT ![k] = "resolved"]
      /\ UNCHANGED <<status, entry>>
  BY DEF ResolvePass, Goto, ticketVars
<1>3. /\ \A j \in Call : /\ job'[j].kind = job[j].kind
                         /\ job'[j].who = job[j].who
                         /\ job'[j].entry = job[j].entry
      /\ job'[k].ticket = t
      /\ \A j \in Call \ {k} : job'[j] = job[j] /\ pc'[j] = pc[j]
  BY <1>1, <1>2 DEF TypeOK, Job
<1>4. \A j \in Call : AtWork(j)' => AtWork(j)
  BY <1>2, <1>3 DEF AtWork, InProgress, TypeOK
<1>5. OneAtWork' /\ ScanStillFree'
  BY <1>2, <1>3, <1>4 DEF OneAtWork, ScanStillFree
<1>6. PassStillActive'
  BY <1>1, <1>2, <1>3, <1>4 DEF PassStillActive
<1>7. Standing' = Standing
  BY <1>2 DEF Standing
<1>8. VoidedStillStands'
  BY <1>3, <1>4, <1>7 DEF VoidedStillStands
<1>9. StandingUsesItsPass' /\ OnePerPass' /\ OnceInside'
  BY <1>2, <1>7 DEF StandingUsesItsPass, OnePerPass, OnceInside
<1>10. QED
  BY <1>5, <1>6, <1>8, <1>9

\* The last step of a call about check-ins: nobody is at work after it.
LEMMA LastStepRests ==
    ASSUME TypeOK, Serial, NEW k \in Call, AtWork(k), Answer(k, "ok"), job' = job
    PROVE  \A j \in Call : ~AtWork(j)'
<1>1. /\ pc'[k] = "done"
      /\ \A j \in Call \ {k} : pc'[j] = pc[j]
  BY AnswerFrame
<1>2. QED
  BY <1>1 DEF Serial, OneAtWork, AtWork, InProgress

\* What nobody at work has to keep.
LEMMA RestIsSerial ==
    ASSUME \A j \in Call : ~AtWork(j)',
           StandingUsesItsPass', OnePerPass', OnceInside'
    PROVE  Serial'
  BY DEF Serial, OneAtWork, ScanStillFree, PassStillActive, VoidedStillStands

\* A scan lets the person in: she was outside, and her ticket was ACTIVE, so
\* no check-in that stands has it.
LEMMA CreateCheckinKeepsSerial ==
    ASSUME IInv, Serial, NEW k \in Call, CreateCheckin(k)
    PROVE  Serial'
<1> DEFINE t == job[k].ticket
           e == [NoEntry EXCEPT !.exists = TRUE, !.person = job[k].who, !.pass = t]
<1> USE DEF IInv, Serial
<1>1. /\ Answer(k, "ok") /\ pc[k] = "resolved" /\ job[k].kind = "scan"
      /\ entry' = [entry EXCEPT ![k] = e]
      /\ status' = [x \in Ticket |-> IF x = t THEN "USED" ELSE status[x]]
      /\ job' = job
  BY DEF CreateCheckin
<1>2. AtWork(k)
  BY <1>1 DEF AtWork, InProgress, AtDoor
<1>3. \A j \in Call : ~AtWork(j)'
  BY <1>1, <1>2, LastStepRests
<1>4. job[k] \in Job
  BY DEF TypeOK
<1>5. e.exists /\ ~e.voided /\ ~e.out /\ e.pass = t /\ e.person = job[k].who
  BY <1>4, NoJobTyped DEF Job, NoEntry
<1>6. entry'[k] = e /\ \A j \in Call \ {k} : entry'[j] = entry[j]
  BY <1>1 DEF TypeOK
<1>7. \A j \in Standing' : j = k \/ (j \in Standing /\ entry'[j] = entry[j])
  BY <1>6 DEF Standing
<1>8. \A j \in Standing : entry[j].pass \in Ticket \cup {NoTicket}
  BY DEF Standing, TypeOK, Entry
<1>9. t \in Ticket \cup {NoTicket}
  BY <1>4 DEF Job
<1> HIDE DEF e
<1>10. StandingUsesItsPass'
  BY <1>1, <1>5, <1>6, <1>7, <1>8, <1>9, CustodyAssumption
    DEF StandingUsesItsPass
<1>11. t # NoTicket => \A j \in Standing : entry[j].pass # t
  BY <1>1, <1>2 DEF PassStillActive, StandingUsesItsPass
<1>12. OnePerPass'
  BY <1>5, <1>6, <1>7, <1>11 DEF OnePerPass
<1>13. \A j \in Standing : entry[j].person = job[k].who => entry[j].out
  BY <1>1, <1>2 DEF ScanStillFree, Standing
<1>14. OnceInside'
  BY <1>5, <1>6, <1>7, <1>13 DEF OnceInside
<1>15. QED
  BY <1>3, <1>10, <1>12, <1>14, RestIsSerial

\* A void takes away the one check-in that stands with its ticket.
LEMMA WriteVoidKeepsSerial ==
    ASSUME IInv, Serial, NEW k \in Call, WriteVoid(k)
    PROVE  Serial'
<1> DEFINE e == job[k].entry
<1> USE DEF IInv, Serial
<1>1. /\ Answer(k, "ok") /\ pc[k] = "read" /\ job[k].kind = "void"
      /\ entry' = [entry EXCEPT ![e].voided = TRUE]
      /\ status' = [t \in Ticket |-> IF t = entry[e].pass THEN "ACTIVE" ELSE status[t]]
      /\ job' = job
  BY DEF WriteVoid, Returned
<1>2. AtWork(k)
  BY <1>1 DEF AtWork, InProgress, AtDoor
<1>3. \A j \in Call : ~AtWork(j)'
  BY <1>1, <1>2, LastStepRests
<1>4. e \in Standing
  BY <1>1, <1>2 DEF VoidedStillStands
<1>5. entry'[e].voided /\ \A j \in Call \ {e} : entry'[j] = entry[j]
  BY <1>1, <1>4 DEF Standing, TypeOK, Entry
<1>6. \A j \in Standing' : j # e /\ j \in Standing /\ entry'[j] = entry[j]
  BY <1>5 DEF Standing
<1>7. \A j \in Standing' :
         entry[j].pass # NoTicket =>
            entry[j].pass \in Ticket /\ entry[j].pass # entry[e].pass
  BY <1>4, <1>6 DEF OnePerPass, Standing, TypeOK, Entry
<1>8. StandingUsesItsPass'
  BY <1>1, <1>6, <1>7 DEF StandingUsesItsPass
<1>9. OnePerPass' /\ OnceInside'
  BY <1>6 DEF OnePerPass, OnceInside
<1>10. QED
  BY <1>3, <1>8, <1>9, RestIsSerial

\* A check-out only lets a person out.
LEMMA WriteOutKeepsSerial ==
    ASSUME IInv, Serial, NEW k \in Call, WriteOut(k)
    PROVE  Serial'
<1> DEFINE e == job[k].entry
<1> USE DEF IInv, Serial
<1>1. /\ Answer(k, "ok") /\ pc[k] = "read" /\ job[k].kind = "out"
      /\ entry' = [entry EXCEPT ![e].out = TRUE]
      /\ status' = status /\ job' = job
  BY DEF WriteOut, ticketVars
<1>2. AtWork(k)
  BY <1>1 DEF AtWork, InProgress, AtDoor
<1>3. \A j \in Call : ~AtWork(j)'
  BY <1>1, <1>2, LastStepRests
<1>4. \A j \in Call : /\ entry'[j].exists = entry[j].exists
                      /\ entry'[j].voided = entry[j].voided
                      /\ entry'[j].pass = entry[j].pass
                      /\ entry'[j].person = entry[j].person
                      /\ entry[j].out => entry'[j].out
  BY <1>1 DEF TypeOK, Entry
<1>5. Standing' = Standing
  BY <1>4 DEF Standing
<1>6. \A j \in Standing : j \in Call
  BY DEF Standing
<1>7. StandingUsesItsPass' /\ OnePerPass' /\ OnceInside'
  BY <1>1, <1>4, <1>5, <1>6 DEF StandingUsesItsPass, OnePerPass, OnceInside
<1>8. QED
  BY <1>3, <1>7, RestIsSerial

\* raced is never unset, and every step keeps what holds while it is not set.
LEMMA NextSerial ==
    IInv /\ (~raced => Serial) /\ [Next]_vars => (~raced => Serial)'
<1> SUFFICES ASSUME IInv, ~raced => Serial, [Next]_vars, ~raced' PROVE Serial'
  OBVIOUS
<1>1. CASE UNCHANGED vars
  <2>1. Serial /\ UNCHANGED <<status, entry, job, pc>>
    BY <1>1 DEF vars
  <2>2. \A j \in Call : AtWork(j)' => AtWork(j) /\ job'[j] = job[j] /\ pc'[j] = pc[j]
    BY <2>1 DEF AtWork, InProgress
  <2>3. QED
    BY <2>1, <2>2, CalmKeepsSerial
<1>2. CASE Next
  <2>1. PICK k \in Call :
           \/ \/ \E p \in Person, t \in Ticket :
                   ReadClaim(k, p, t) \/ \E q \in Person : ReadTransfer(k, p, q, t)
              \/ \E p \in Person : ReadOpen(k, p)
              \/ \E e \in Call : ReadVoid(k, e) \/ ReadOut(k, e)
           \/ WriteClaim(k) \/ WriteTransfer(k)
           \/ \E p \in Person : RefuseDuplicate(k, p)
           \/ ResolvePass(k) \/ CreateCheckin(k)
           \/ WriteVoid(k) \/ WriteOut(k)
    BY <1>2 DEF Next
  <2>2. CASE \/ \E p \in Person, t \in Ticket :
                   ReadClaim(k, p, t) \/ \E q \in Person : ReadTransfer(k, p, q, t)
             \/ \E p \in Person : ReadOpen(k, p)
             \/ \E e \in Call : ReadVoid(k, e) \/ ReadOut(k, e)
    BY <2>2, ReadKeepsSerial
  <2>3. CASE \/ WriteClaim(k) \/ WriteTransfer(k)
             \/ \E p \in Person : RefuseDuplicate(k, p)
             \/ ResolvePass(k) \/ CreateCheckin(k) \/ WriteVoid(k) \/ WriteOut(k)
    <3>1. raced' = raced
      BY <2>3 DEF WriteClaim, WriteTransfer, RefuseDuplicate, ResolvePass,
                  CreateCheckin, WriteVoid, WriteOut, Answer
    <3>2. QED
      BY <2>3, <3>1, OthersKeepSerial, ResolvePassKeepsSerial,
         CreateCheckinKeepsSerial, WriteVoidKeepsSerial, WriteOutKeepsSerial
  <2>4. QED
    BY <2>1, <2>2, <2>3
<1>3. QED
  BY <1>1, <1>2

-----------------------------------------------------------------------------
\* The invariant holds in every reachable state.
THEOREM Invariance == Spec => []IInv
<1>1. Init => IInv
  BY InitInv
<1>2. IInv /\ [Next]_vars => IInv'
  BY NextInv
<1>3. QED
  BY <1>1, <1>2, PTL DEF Spec

\* The state keeps its types.
THEOREM TypeCorrect == Spec => []TypeOK
<1>1. IInv => TypeOK
  BY DEF IInv
<1>2. QED
  BY <1>1, Invariance, PTL

\* Claim links (tickets.controller.ts, claim): of any number of people who
\* claim one ticket at the same time, one gets it.
THEOREM FirstClaimWins == Spec => []OneClaimPerTicket
<1>1. IInv => OneClaimPerTicket
  BY DEF IInv
<1>2. QED
  BY <1>1, Invariance, PTL

\* Claim links (tickets.controller.ts, transfer): a link that still works
\* never takes a ticket from anybody but its buyer.
THEOREM LinksOnlyTakeFromBuyer == Spec => []TokenOnlyWithBuyer
<1>1. IInv => TokenOnlyWithBuyer
  BY DEF IInv
<1>2. QED
  BY <1>1, Invariance, PTL

\* Check-ins (prisma-checkins.repo.ts, voidCheckin): however scans and voids
\* race, no ticket stays USED without a check-in that stands.
THEOREM NoTicketIsLost == Spec => []UsedTicketHasEntry
<1>1. IInv => UsedTicketHasEntry
  BY DEF IInv
<1>2. QED
  BY <1>1, Invariance, PTL

\* As long as calls about check-ins follow one another, each works on what it
\* read (register, voidCheckin, closeCheckin).
THEOREM SerialCheckins == Spec => [](~raced => Serial)
<1>1. Init => (~raced => Serial)
  <2> SUFFICES ASSUME Init PROVE Serial
    OBVIOUS
  <2>1. /\ \A k \in Call : pc[k] = "idle"
        /\ \A k \in Call : ~entry[k].exists
    BY NoJobTyped DEF Init
  <2>2. (\A k \in Call : ~AtWork(k)) /\ Standing = {}
    BY <2>1 DEF AtWork, InProgress, Standing
  <2>3. QED
    BY <2>2 DEF Serial, OneAtWork, ScanStillFree, PassStillActive,
                VoidedStillStands, StandingUsesItsPass, OnePerPass, OnceInside
<1>2. IInv /\ (~raced => Serial) /\ [Next]_vars => (~raced => Serial)'
  BY NextSerial
<1>3. QED
  BY <1>1, <1>2, Invariance, PTL DEF Spec

\* Check-ins (checkins.service.ts, register; prisma-checkins.repo.ts,
\* createCheckin, voidCheckin): while no two calls about check-ins overlap, a
\* ticket has one check-in that stands, whatever claims and transfers do.
THEOREM OneEntryPerTicket == Spec => []TicketAdmitsOne
<1>1. (~raced => Serial) => TicketAdmitsOne
  BY DEF Serial, OnePerPass, TicketAdmitsOne
<1>2. QED
  BY <1>1, SerialCheckins, PTL

\* Check-ins (checkins.service.ts, register, closeCheckin): while no two calls
\* about check-ins overlap, nobody is inside twice.
THEOREM NobodyInsideTwice == Spec => []InsideOnce
<1>1. (~raced => Serial) => InsideOnce
  BY DEF Serial, InsideOnce
<1>2. QED
  BY <1>1, SerialCheckins, PTL

-----------------------------------------------------------------------------
(* The sale of the tickets (TicketSales).                                  *)

\* Where a purchase is tells its order.
StageTellsOrder ==
    /\ \A k \in Purchase :
          /\ stage[k] \in {"idle", "counting"} => order[k] = "none"
          /\ stage[k] = "idle" => \A q \in Query : seen[k][q] = Unread
          /\ stage[k] = "settling" => order[k] = "PENDING" /\ k \in Credit
    /\ \A k \in lapsed : order[k] # "none"
    /\ \A k \in Purchase : order[k] = "FAILED" => k \in lapsed

\* What a purchase has counted covers what is there, until it is disturbed.
CountIsCovered ==
    \A k \in Purchase : stage[k] = "counting" /\ k \notin disturbed =>
        \A q \in Queries(channel[k]) :
            seen[k][q] # Unread => Count(channel[k], q) <= seen[k][q]

\* The presale orders that nothing disturbed and that still hold their places
\* are within the cap, whatever became of the others.
Undisturbed ==
    {k \in Purchase : /\ channel[k] = "PRESALE" /\ order[k] \in {"PENDING", "PAID"}
                      /\ k \notin lapsed \cup disturbed}
UndisturbedFit == Tickets(Undisturbed) <= PresaleCap

SalesInv ==
    /\ SalesTypeOK
    /\ StageTellsOrder
    /\ CountIsCovered
    /\ UndisturbedFit
    /\ CreditsConserved

-----------------------------------------------------------------------------
(* Counting tickets.                                                       *)

LEMMA TicketsFinite ==
    ASSUME NEW S \in SUBSET Purchase
    PROVE  IsFiniteSet(TicketsOf(S)) /\ Tickets(S) \in Nat
<1>1. IsFiniteSet(Purchase \X (1..10))
  <2>1. 1 \in Int /\ 10 \in Int /\ IsFiniteSet(Purchase)
    BY SalesAssumption
  <2>2. IsFiniteSet(1..10)
    BY <2>1, FS_Interval
  <2>3. QED
    BY <2>1, <2>2, FS_Product
<1>2. TicketsOf(S) \subseteq Purchase \X (1..10)
  BY DEF TicketsOf
<1>3. IsFiniteSet(TicketsOf(S))
  BY <1>1, <1>2, FS_Subset
<1>4. QED
  BY <1>3, FS_CardinalityType DEF Tickets

LEMMA TicketsNone == Tickets({}) = 0
<1>1. TicketsOf({}) = {}
  BY DEF TicketsOf
<1>2. QED
  BY <1>1, FS_EmptySet DEF Tickets

\* More orders, more tickets.
LEMMA TicketsGrow ==
    ASSUME NEW T \in SUBSET Purchase, NEW S \in SUBSET T
    PROVE  /\ Tickets(S) \in Nat /\ Tickets(T) \in Nat
           /\ Tickets(S) <= Tickets(T)
<1>1. IsFiniteSet(TicketsOf(T)) /\ Tickets(S) \in Nat /\ Tickets(T) \in Nat
  BY TicketsFinite
<1>2. TicketsOf(S) \subseteq TicketsOf(T)
  BY DEF TicketsOf
<1>3. QED
  BY <1>1, <1>2, FS_Subset DEF Tickets

\* Orders apart from each other sell tickets apart from each other.
LEMMA TicketsAdd ==
    ASSUME NEW S \in SUBSET Purchase, NEW T \in SUBSET Purchase, S \cap T = {}
    PROVE  Tickets(S \cup T) = Tickets(S) + Tickets(T)
<1>1. /\ IsFiniteSet(TicketsOf(S)) /\ IsFiniteSet(TicketsOf(T))
      /\ Tickets(S) \in Nat /\ Tickets(T) \in Nat
  BY TicketsFinite
<1>2. /\ TicketsOf(S \cup T) = TicketsOf(S) \cup TicketsOf(T)
      /\ TicketsOf(S) \cap TicketsOf(T) = {}
  BY DEF TicketsOf
<1>3. /\ Cardinality(TicketsOf(S) \cup TicketsOf(T)) =
            Cardinality(TicketsOf(S)) + Cardinality(TicketsOf(T))
               - Cardinality(TicketsOf(S) \cap TicketsOf(T))
      /\ Cardinality(TicketsOf(S) \cap TicketsOf(T)) = 0
  BY <1>1, <1>2, FS_Union, FS_EmptySet
<1>4. Tickets(S \cup T) = Cardinality(TicketsOf(S) \cup TicketsOf(T))
  BY <1>2 DEF Tickets
<1>5. QED
  BY <1>1, <1>3, <1>4 DEF Tickets

\* An order sells as many as its quantity.
LEMMA TicketsOfOne ==
    ASSUME NEW k \in Purchase
    PROVE  Tickets({k}) = Quantity[k] /\ Quantity[k] \in 1..10
<1>1. Quantity[k] \in 1..10
  BY SalesAssumption
<1>2. TicketsOf({k}) = {k} \X (1..Quantity[k])
  BY <1>1 DEF TicketsOf
<1>3. /\ IsFiniteSet({k}) /\ Cardinality({k}) = 1
      /\ IsFiniteSet(1..Quantity[k]) /\ Cardinality(1..Quantity[k]) = Quantity[k]
  <2>1. 1 \in Int /\ Quantity[k] \in Int /\ 1 <= Quantity[k]
    BY <1>1
  <2>2. /\ IsFiniteSet(1..Quantity[k])
        /\ Cardinality(1..Quantity[k]) =
             IF 1 > Quantity[k] THEN 0 ELSE Quantity[k] - 1 + 1
    BY <2>1, FS_Interval
  <2>3. Cardinality(1..Quantity[k]) = Quantity[k]
    BY <2>1, <2>2
  <2>4. IsFiniteSet({k}) /\ Cardinality({k}) = 1
    BY FS_Singleton
  <2>5. QED
    BY <2>2, <2>3, <2>4
<1>4. Cardinality({k} \X (1..Quantity[k])) = 1 * Quantity[k]
  <2>1. Cardinality({k} \X (1..Quantity[k])) =
           Cardinality({k}) * Cardinality(1..Quantity[k])
    BY <1>3, FS_Product
  <2>2. QED
    BY <1>3, <2>1
<1>5. QED
  BY <1>1, <1>2, <1>4 DEF Tickets

LEMMA OneMoreOrder ==
    ASSUME NEW S \in SUBSET Purchase, NEW k \in Purchase, k \notin S
    PROVE  /\ Tickets(S \cup {k}) = Tickets(S) + Quantity[k]
           /\ Tickets(S) \in Nat /\ Quantity[k] \in 1..10
<1>1. S \cap {k} = {} /\ {k} \in SUBSET Purchase
  OBVIOUS
<1>2. QED
  BY <1>1, TicketsAdd, TicketsFinite, TicketsOfOne

-----------------------------------------------------------------------------
(* What the steps have in common.                                          *)

LEMMA CountTyped ==
    SalesTypeOK => \A c \in Channel, q \in Query : Count(c, q) \in Nat
<1> SUFFICES ASSUME SalesTypeOK, NEW c \in Channel, NEW q \in Query
             PROVE  Count(c, q) \in Nat
  OBVIOUS
<1>1. \A st : Orders(c, st) \in SUBSET Purchase
  BY DEF Orders
<1>2. Tickets(Orders(c, "PAID")) \in Nat /\ Pending(c) \in Nat
  BY <1>1, TicketsFinite DEF Pending
<1>3. staffSold \in Nat /\ manual \in Nat
  BY SalesAssumption DEF SalesTypeOK
<1>4. q \in {"sold", "pending", "manual"}
  BY DEF Query
<1>5. QED
  BY <1>2, <1>3, <1>4 DEF Count

\* The counts move with the orders and the check-ins only.
LEMMA CountStays ==
    ASSUME UNCHANGED <<order, lapsed, staffSold, manual>>,
           \A k \in Purchase : order[k] # "none" => channel'[k] = channel[k],
           NEW c \in Channel, NEW q \in Query
    PROVE  Count(c, q)' = Count(c, q)
<1>1. /\ Orders(c, "PAID")' = Orders(c, "PAID")
      /\ Orders(c, "PENDING")' = Orders(c, "PENDING")
  BY DEF Orders
<1>2. QED
  BY <1>1 DEF Count, Pending

\* A step that touches no order leaves the undisturbed ones within the cap.
LEMMA FitStays ==
    ASSUME SalesInv, Undisturbed' \subseteq Undisturbed
    PROVE  UndisturbedFit'
<1>1. Undisturbed \in SUBSET Purchase /\ Undisturbed' \in SUBSET Undisturbed
  BY DEF Undisturbed
<1>2. Tickets(Undisturbed') \in Nat /\ Tickets(Undisturbed) \in Nat
      /\ Tickets(Undisturbed') <= Tickets(Undisturbed)
  BY <1>1, TicketsGrow
<1>3. PresaleCap \in Nat
  BY SalesAssumption
<1>4. QED
  BY <1>2, <1>3 DEF SalesInv, UndisturbedFit, Tickets, TicketsOf

LEMMA CreditsStay ==
    ASSUME SalesInv, UNCHANGED creditVars,
           \A k \in Purchase : order'[k] = "none" <=> order[k] = "none"
    PROVE  CreditsConserved'
<1>1. {k \in Credit : order'[k] # "none"} = {k \in Credit : order[k] # "none"}
  BY SalesAssumption
<1>2. QED
  BY <1>1 DEF SalesInv, CreditsConserved, creditVars, Tickets, TicketsOf

\* Who counts is disturbed: nothing is said of its counts.
LEMMA AllDisturbed ==
    ASSUME \A k \in Purchase : stage'[k] = "counting" => k \in disturbed'
    PROVE  CountIsCovered'
  BY DEF CountIsCovered

\* A step that leaves the orders, the credits and the history alone keeps the
\* invariant when it keeps what is said of the purchase that takes it.
LEMMA NoOrderTouched ==
    ASSUME SalesInv, SalesTypeOK', StageTellsOrder', CountIsCovered',
           UNCHANGED <<order, lapsed, balance, redeemed, disturbed>>,
           \A k \in Purchase : order[k] # "none" => channel'[k] = channel[k]
    PROVE  SalesInv'
<1>1. Undisturbed' \subseteq Undisturbed
  BY DEF Undisturbed
<1>2. UndisturbedFit' /\ CreditsConserved'
  BY <1>1, FitStays, CreditsStay DEF creditVars
<1>3. QED
  BY <1>2 DEF SalesInv

-----------------------------------------------------------------------------
(* The steps that touch no order.                                          *)

\* A purchase ends with nothing in its hands.
LEMMA EndsInv ==
    ASSUME SalesInv, NEW k \in Purchase, stage[k] # "idle",
           GoesTo(k, "done"), Forget(k) \/ UNCHANGED seen,
           UNCHANGED <<phase, channel, order, lapsed, doorVars, creditVars, disturbed>>
    PROVE  SalesInv'
<1>1. SalesTypeOK /\ StageTellsOrder /\ CountIsCovered
  BY DEF SalesInv
<1>2. /\ stage' \in [Purchase -> {"idle", "counting", "settling", "done"}]
      /\ seen' \in [Purchase -> [Query -> Nat \cup {Unread}]]
      /\ stage'[k] = "done"
      /\ \A j \in Purchase \ {k} : stage'[j] = stage[j] /\ seen'[j] = seen[j]
  BY <1>1 DEF SalesTypeOK, GoesTo, Forget
<1>3. SalesTypeOK'
  BY <1>1, <1>2 DEF SalesTypeOK, doorVars, creditVars
<1>4. StageTellsOrder'
  BY <1>1, <1>2 DEF StageTellsOrder
<1>5. CountIsCovered'
  <2>1. \A c \in Channel, q \in Query : Count(c, q)' = Count(c, q)
    BY CountStays DEF doorVars
  <2>2. \A j \in Purchase : channel[j] \in Channel /\ Queries(channel[j]) \subseteq Query
    BY <1>1 DEF SalesTypeOK, Queries, Query
  <2>3. QED
    BY <1>1, <1>2, <2>1, <2>2 DEF CountIsCovered
<1>6. QED
  BY <1>3, <1>4, <1>5, NoOrderTouched DEF creditVars

LEMMA BeginInv ==
    ASSUME SalesInv, NEW k \in Purchase, Begin(k)
    PROVE  SalesInv'
<1>1. SalesTypeOK /\ StageTellsOrder /\ CountIsCovered
  BY DEF SalesInv
<1>2. /\ stage' \in [Purchase -> {"idle", "counting", "settling", "done"}]
      /\ stage'[k] \in {"counting", "done"} /\ stage[k] = "idle"
      /\ channel' \in [Purchase -> Channel]
      /\ \A j \in Purchase \ {k} : stage'[j] = stage[j] /\ channel'[j] = channel[j]
  BY <1>1 DEF SalesTypeOK, Begin, GoesTo, Channel
<1>3. order[k] = "none" /\ \A q \in Query : seen[k][q] = Unread
  BY <1>1, <1>2 DEF StageTellsOrder
<1>4. UNCHANGED <<phase, seen, order, lapsed, sale, staffSold, manual, balance,
                  redeemed, disturbed>>
  BY DEF Begin, doorVars, creditVars
<1>5. SalesTypeOK'
  BY <1>1, <1>2, <1>4 DEF SalesTypeOK
<1>6. StageTellsOrder'
  BY <1>1, <1>2, <1>3, <1>4 DEF StageTellsOrder
<1>7. CountIsCovered'
  <2>1. \A c \in Channel, q \in Query : Count(c, q)' = Count(c, q)
    BY <1>2, <1>3, <1>4, CountStays
  <2>2. \A c : Queries(c) \subseteq Query
    BY DEF Queries, Query
  <2>3. \A j \in Purchase : channel[j] \in Channel
    BY <1>1 DEF SalesTypeOK
  <2>4. QED
    BY <1>1, <1>2, <1>3, <1>4, <2>1, <2>2, <2>3 DEF CountIsCovered
<1>8. QED
  BY <1>2, <1>3, <1>4, <1>5, <1>6, <1>7, NoOrderTouched

LEMMA RunQueryInv ==
    ASSUME SalesInv, NEW k \in Purchase, NEW q \in Query, RunQuery(k, q)
    PROVE  SalesInv'
<1>1. SalesTypeOK /\ StageTellsOrder /\ CountIsCovered
  BY DEF SalesInv
<1>2. UNCHANGED <<phase, stage, channel, order, lapsed, sale, staffSold, manual,
                  balance, redeemed, disturbed>>
  BY DEF RunQuery, doorVars, creditVars
<1>3. \A c \in Channel, p \in Query : Count(c, p)' = Count(c, p)
  BY <1>2, CountStays
<1>4. channel[k] \in Channel /\ Count(channel[k], q) \in Nat
  BY <1>1, CountTyped DEF SalesTypeOK
<1>5. /\ seen' \in [Purchase -> [Query -> Nat \cup {Unread}]]
      /\ seen'[k][q] = Count(channel[k], q) /\ stage[k] = "counting"
      /\ \A j \in Purchase, p \in Query :
             j # k \/ p # q => seen'[j][p] = seen[j][p]
  BY <1>1, <1>4 DEF SalesTypeOK, RunQuery
<1>6. SalesTypeOK'
  BY <1>1, <1>2, <1>5 DEF SalesTypeOK
<1>7. StageTellsOrder'
  BY <1>1, <1>2, <1>5 DEF StageTellsOrder
<1>8. CountIsCovered'
  <2>1. \A c : Queries(c) \subseteq Query
    BY DEF Queries, Query
  <2>2. \A j \in Purchase : channel[j] \in Channel
    BY <1>1 DEF SalesTypeOK
  <2>3. ASSUME NEW j \in Purchase, stage[j] = "counting", j \notin disturbed,
               NEW p \in Queries(channel[j]), seen'[j][p] # Unread
        PROVE  Count(channel[j], p) <= seen'[j][p]
    <3>1. CASE j = k /\ p = q
      <4>1. seen'[j][p] = Count(channel[j], p)
        BY <1>5, <3>1
      <4>2. Count(channel[j], p) \in Nat
        BY <1>4, <3>1
      <4>3. QED
        BY <4>1, <4>2
    <3>2. CASE ~(j = k /\ p = q)
      <4>1. p \in Query
        BY <2>1, <2>3
      <4>2. seen'[j][p] = seen[j][p]
        BY <1>5, <3>2, <4>1
      <4>3. QED
        BY <1>1, <2>3, <4>2 DEF CountIsCovered
    <3>3. QED
      BY <3>1, <3>2
  <2>4. \A j \in Purchase : \A p \in Queries(channel[j]) :
           Count(channel[j], p)' = Count(channel[j], p)
    BY <1>2, <1>3, <2>1, <2>2
  <2>5. QED
    BY <1>2, <2>3, <2>4 DEF CountIsCovered
<1>9. QED
  BY <1>2, <1>6, <1>7, <1>8, NoOrderTouched

\* Counts that only shrink stay covered.
LEMMA LessIsCovered ==
    ASSUME SalesTypeOK, SalesTypeOK', CountIsCovered,
           UNCHANGED <<stage, channel, seen, disturbed>>,
           \A c \in Channel, q \in Query : Count(c, q)' <= Count(c, q)
    PROVE  CountIsCovered'
<1>1. (\A c \in Channel, q \in Query : Count(c, q) \in Nat)'
  BY CountTyped, PTL
<1>2. ASSUME NEW j \in Purchase, stage[j] = "counting", j \notin disturbed,
             NEW q \in Queries(channel[j]), seen[j][q] # Unread
      PROVE  Count(channel[j], q)' <= seen[j][q]
  <2>1. PICK c \in Channel : c = channel[j]
    BY DEF SalesTypeOK
  <2>2. q \in Query
    BY DEF Queries, Query
  <2>3. Count(c, q)' <= Count(c, q) /\ Count(c, q) \in Nat /\ Count(c, q)' \in Nat
    BY <1>1, <2>2, CountTyped
  <2>4. Count(c, q) <= seen[j][q] /\ seen[j][q] \in Nat
    BY <1>2, <2>1, <2>2 DEF CountIsCovered, SalesTypeOK
  <2>5. Count(channel[j], q)' = Count(c, q)'
    BY <2>1
  <2>6. QED
    BY <2>3, <2>4, <2>5
<1>3. QED
  BY <1>2 DEF CountIsCovered

\* The clock, the check of the cap at the door, and check-ins that are voided.
LEMMA AsideSalesInv ==
    ASSUME SalesInv, SalesTypeOK', manual' <= manual,
           UNCHANGED <<stage, channel, seen, order, lapsed, staffSold, balance,
                       redeemed, disturbed>>
    PROVE  SalesInv'
<1>1. SalesTypeOK /\ StageTellsOrder /\ CountIsCovered
  BY DEF SalesInv
<1>2. \A c \in Channel, q \in Query : Count(c, q)' <= Count(c, q)
  <2>1. ASSUME NEW c \in Channel, NEW q \in Query
        PROVE  Count(c, q)' <= Count(c, q)
    <3>1. /\ Orders(c, "PAID")' = Orders(c, "PAID")
          /\ Orders(c, "PENDING")' = Orders(c, "PENDING")
      BY DEF Orders
    <3>2. Pending(c)' = Pending(c)
      BY <3>1 DEF Pending
    <3>3. CASE q = "manual"
      BY <3>3 DEF Count
    <3>4. CASE q \in {"sold", "pending"}
      <4>1. Count(c, q)' = Count(c, q)
        BY <3>1, <3>2, <3>4 DEF Count
      <4>2. Count(c, q) \in Nat
        BY <1>1, CountTyped
      <4>3. QED
        BY <4>1, <4>2
    <3>5. QED
      BY <3>3, <3>4 DEF Query
  <2>2. QED
    BY <2>1
<1>3. StageTellsOrder'
  BY <1>1 DEF StageTellsOrder
<1>4. CountIsCovered'
  BY <1>1, <1>2, LessIsCovered
<1>5. QED
  BY <1>3, <1>4, NoOrderTouched

-----------------------------------------------------------------------------
(* The steps that create or pay an order, or register who enters.          *)

\* An order that is paid. One that was refused before stays out of those that
\* hold their places.
LEMMA SettlesInv ==
    ASSUME SalesInv, NEW k \in Purchase, order[k] \in {"PENDING", "FAILED"},
           order' = [order EXCEPT ![k] = "PAID"],
           Disturb(k), stage[k] # "settling" \/ stage'[k] = "done",
           UNCHANGED stage \/ GoesTo(k, "done"),
           UNCHANGED <<phase, channel, seen, lapsed, doorVars, creditVars>>
    PROVE  SalesInv'
<1>1. SalesTypeOK /\ StageTellsOrder
  BY DEF SalesInv
<1>2. /\ order' \in [Purchase -> {"none", "PENDING", "PAID", "FAILED"}]
      /\ order'[k] = "PAID" /\ \A j \in Purchase \ {k} : order'[j] = order[j]
  BY <1>1 DEF SalesTypeOK
<1>3. /\ stage' \in [Purchase -> {"idle", "counting", "settling", "done"}]
      /\ stage'[k] \notin {"idle", "counting", "settling"}
      /\ \A j \in Purchase \ {k} : stage'[j] = stage[j]
  BY <1>1 DEF SalesTypeOK, StageTellsOrder, GoesTo
<1>4. /\ disturbed' \in SUBSET Purchase /\ disturbed \subseteq disturbed'
      /\ \A j \in Purchase \ {k} : stage[j] = "counting" => j \in disturbed'
  BY <1>1 DEF SalesTypeOK, Disturb
<1>5. SalesTypeOK'
  BY <1>1, <1>2, <1>3, <1>4 DEF SalesTypeOK, doorVars, creditVars
<1>6. StageTellsOrder'
  BY <1>1, <1>2, <1>3 DEF StageTellsOrder
<1>7. CountIsCovered'
  BY <1>3, <1>4, AllDisturbed
<1>8. UndisturbedFit'
  <2>1. Undisturbed' \subseteq Undisturbed
    BY <1>1, <1>2, <1>4 DEF Undisturbed, StageTellsOrder
  <2>2. QED
    BY <2>1, FitStays
<1>9. CreditsConserved'
  BY <1>2, CreditsStay
<1>10. QED
  BY <1>5, <1>6, <1>7, <1>8, <1>9 DEF SalesInv

\* Somebody enters by hand, with a ticket of doorSale or one bought elsewhere.
LEMMA EntersInv ==
    ASSUME SalesInv, manual' \in 0..MaxManual, staffSold' \in Nat,
           sale' \in [Sale -> {"idle", "checked", "done"}],
           disturbed' = disturbed \cup {k \in Purchase : stage[k] = "counting"},
           UNCHANGED <<phase, stage, channel, seen, order, lapsed, creditVars>>
    PROVE  SalesInv'
<1>1. SalesTypeOK /\ StageTellsOrder
  BY DEF SalesInv
<1>2. SalesTypeOK'
  BY <1>1 DEF SalesTypeOK, creditVars
<1>3. StageTellsOrder'
  BY <1>1 DEF StageTellsOrder
<1>4. CountIsCovered'
  BY AllDisturbed
<1>5. UndisturbedFit'
  <2>1. Undisturbed' \subseteq Undisturbed
    BY DEF Undisturbed
  <2>2. QED
    BY <2>1, FitStays
<1>6. CreditsConserved'
  BY CreditsStay
<1>7. QED
  BY <1>2, <1>3, <1>4, <1>5, <1>6 DEF SalesInv

\* An order that loses its places: what was counted still covers the rest.
LEMMA LapsesInv ==
    ASSUME SalesInv, NEW k \in Purchase, Expire(k) \/ Refuse(k)
    PROVE  SalesInv'
<1>1. SalesTypeOK /\ StageTellsOrder /\ CountIsCovered
  BY DEF SalesInv
<1>2. /\ order[k] = "PENDING" /\ lapsed' = lapsed \cup {k}
      /\ order' \in [Purchase -> {"none", "PENDING", "PAID", "FAILED"}]
      /\ order'[k] \in {"PENDING", "FAILED"}
      /\ \A j \in Purchase \ {k} : order'[j] = order[j]
      /\ stage[k] = "settling" => order'[k] = "PENDING"
      /\ UNCHANGED <<phase, stage, channel, seen, sale, staffSold, manual,
                     balance, redeemed, disturbed>>
  BY <1>1 DEF SalesTypeOK, StageTellsOrder, Expire, Refuse, doorVars, creditVars
<1>3. SalesTypeOK'
  BY <1>1, <1>2 DEF SalesTypeOK
<1>4. StageTellsOrder'
  <2>1. \A j \in Purchase :
           /\ stage'[j] \in {"idle", "counting"} => order'[j] = "none"
           /\ stage'[j] = "idle" => \A q \in Query : seen'[j][q] = Unread
           /\ stage'[j] = "settling" => order'[j] = "PENDING" /\ j \in Credit
    <3>1. stage[k] \notin {"idle", "counting"}
      BY <1>1, <1>2 DEF StageTellsOrder
    <3>2. \A j \in Purchase \ {k} : order'[j] = order[j]
      BY <1>2
    <3>3. QED
      BY <1>1, <1>2, <3>1, <3>2 DEF StageTellsOrder
  <2>2. \A j \in lapsed' : order'[j] # "none"
    <3>1. lapsed \subseteq Purchase
      BY <1>1 DEF SalesTypeOK
    <3>2. QED
      BY <1>1, <1>2, <3>1 DEF StageTellsOrder
  <2>3. \A j \in Purchase : order'[j] = "FAILED" => j \in lapsed'
    BY <1>1, <1>2 DEF StageTellsOrder
  <2>4. QED
    BY <2>1, <2>2, <2>3 DEF StageTellsOrder
<1>5. \A c \in Channel, q \in Query : Count(c, q)' <= Count(c, q)
  <2>1. ASSUME NEW c \in Channel, NEW q \in Query
        PROVE  Count(c, q)' <= Count(c, q)
    <3>1. /\ Orders(c, "PAID")' = Orders(c, "PAID")
          /\ Orders(c, "PENDING")' \subseteq Orders(c, "PENDING")
      BY <1>2 DEF Orders
    <3>2. /\ Orders(c, "PENDING") \ lapsed \in SUBSET Purchase
          /\ Orders(c, "PENDING")' \ lapsed' \in SUBSET (Orders(c, "PENDING") \ lapsed)
      BY <1>2, <3>1 DEF Orders
    <3>3. Tickets(Orders(c, "PENDING")' \ lapsed') <= Tickets(Orders(c, "PENDING") \ lapsed)
      BY <3>2, TicketsGrow
    <3>4. Pending(c)' = Tickets(Orders(c, "PENDING")' \ lapsed')
      BY DEF Pending, Tickets, TicketsOf
    <3>5. CASE q = "pending"
      BY <3>3, <3>4, <3>5 DEF Count, Pending
    <3>6. CASE q \in {"sold", "manual"}
      <4>1. Count(c, q)' = Count(c, q)
        BY <1>2, <3>1, <3>6 DEF Count
      <4>2. Count(c, q) \in Nat
        BY <1>1, CountTyped
      <4>3. QED
        BY <4>1, <4>2
    <3>7. QED
      BY <3>5, <3>6 DEF Query
  <2>2. QED
    BY <2>1
<1>6. CountIsCovered'
  BY <1>1, <1>2, <1>3, <1>5, LessIsCovered
<1>7. UndisturbedFit'
  <2>1. Undisturbed' \subseteq Undisturbed
    BY <1>2 DEF Undisturbed
  <2>2. QED
    BY <2>1, FitStays
<1>8. CreditsConserved'
  BY <1>2, CreditsStay DEF creditVars
<1>9. QED
  BY <1>3, <1>4, <1>6, <1>7, <1>8 DEF SalesInv

\* What a purchase that nothing disturbed has counted covers the load of its
\* channel, and it asks for places that are left.
LEMMA CountedIsLoad ==
    ASSUME SalesInv, NEW k \in Purchase, Counted(k), RoomFor(k), k \notin disturbed
    PROVE  /\ Load(channel[k]) \in Nat /\ Quantity[k] \in 1..10
           /\ Load(channel[k]) + Quantity[k] <= Cap(channel[k])
<1>1. SalesTypeOK /\ CountIsCovered
  BY DEF SalesInv
<1>2. PICK c \in Channel : c = channel[k]
  BY <1>1 DEF SalesTypeOK
<1>3. \A q \in Queries(c) :
          /\ q \in Query /\ Count(c, q) \in Nat /\ seen[k][q] \in Nat
          /\ Count(c, q) <= seen[k][q]
  <2>1. Queries(c) \subseteq Query
    BY DEF Queries, Query
  <2>2. \A q \in Queries(c) : Count(c, q) \in Nat
    BY <1>1, <2>1, CountTyped
  <2>3. QED
    BY <1>1, <1>2, <2>1, <2>2 DEF CountIsCovered, Counted, SalesTypeOK
<1>4. Quantity[k] \in 1..10 /\ Cap(c) \in Nat
  BY SalesAssumption DEF Cap
<1>5. Load(c) = Count(c, "sold") + Count(c, "pending")
                   + (IF c = "DOOR" THEN Count(c, "manual") ELSE 0)
  BY DEF Load, Total, Query
<1>6. seen[k]["sold"] + seen[k]["pending"] + (IF c = "DOOR" THEN seen[k]["manual"] ELSE 0)
         + Quantity[k] <= Cap(c)
  BY <1>2 DEF RoomFor, Total
<1>7. CASE c = "PRESALE"
  <2>1. "sold" \in Queries(c) /\ "pending" \in Queries(c)
    BY <1>7 DEF Queries
  <2>2. QED
    BY <1>2, <1>3, <1>4, <1>5, <1>6, <1>7, <2>1
<1>8. CASE c = "DOOR"
  <2>1. "sold" \in Queries(c) /\ "pending" \in Queries(c) /\ "manual" \in Queries(c)
    BY <1>8 DEF Queries, Query
  <2>2. QED
    BY <1>2, <1>3, <1>4, <1>5, <1>6, <1>8, <2>1
<1>9. QED
  BY <1>7, <1>8 DEF Channel

\* The undisturbed orders are among those the presale counts.
LEMMA UndisturbedInLoad ==
    ASSUME SalesTypeOK
    PROVE  /\ Tickets(Undisturbed) \in Nat
           /\ Tickets(Undisturbed) <= Load("PRESALE")
<1> DEFINE paid    == Orders("PRESALE", "PAID")
           pending == Orders("PRESALE", "PENDING") \ lapsed
<1>1. paid \in SUBSET Purchase /\ pending \in SUBSET Purchase /\ paid \cap pending = {}
  BY DEF Orders
<1>2. Undisturbed \in SUBSET (paid \cup pending)
  BY DEF Undisturbed, Orders
<1>3. Load("PRESALE") = Tickets(paid) + staffSold + Tickets(pending)
  <2>1. /\ Count("PRESALE", "sold") = Tickets(paid) + staffSold
        /\ Count("PRESALE", "pending") = Tickets(pending)
    BY DEF Count, Pending
  <2>2. Load("PRESALE") = Count("PRESALE", "sold") + Count("PRESALE", "pending") + 0
    BY DEF Load, Total, Query
  <2>3. Tickets(paid) \in Nat /\ Tickets(pending) \in Nat /\ staffSold \in Nat
    BY <1>1, TicketsFinite DEF SalesTypeOK
  <2>4. QED
    BY <2>1, <2>2, <2>3
<1>4. Tickets(paid \cup pending) = Tickets(paid) + Tickets(pending)
  BY <1>1, TicketsAdd
<1>5. Tickets(Undisturbed) \in Nat /\ Tickets(Undisturbed) <= Tickets(paid \cup pending)
  <2>1. paid \cup pending \in SUBSET Purchase
    BY <1>1
  <2>2. QED
    BY <1>2, <2>1, TicketsGrow
<1>6. Tickets(paid) \in Nat /\ Tickets(pending) \in Nat /\ staffSold \in Nat
  BY <1>1, TicketsFinite DEF SalesTypeOK
<1>7. QED
  BY <1>3, <1>4, <1>5, <1>6

\* What a creation changes.
LEMMA CreateFacts ==
    ASSUME SalesInv, NEW k \in Purchase, Create(k)
    PROVE  /\ order[k] = "none" /\ order'[k] = "PENDING" /\ k \notin lapsed
           /\ \A j \in Purchase \ {k} : order'[j] = order[j] /\ stage'[j] = stage[j]
                                        /\ seen'[j] = seen[j]
           /\ order' \in [Purchase -> {"none", "PENDING", "PAID", "FAILED"}]
           /\ stage' \in [Purchase -> {"idle", "counting", "settling", "done"}]
           /\ stage'[k] = (IF k \in Credit THEN "settling" ELSE "done")
           /\ seen' \in [Purchase -> [Query -> Nat \cup {Unread}]]
           /\ disturbed' \in SUBSET Purchase /\ disturbed \subseteq disturbed'
           /\ k \in disturbed' => k \in disturbed
           /\ \A j \in Purchase \ {k} : stage[j] = "counting" => j \in disturbed'
           /\ UNCHANGED <<phase, channel, lapsed, sale, staffSold, manual>>
<1>1. SalesTypeOK /\ StageTellsOrder
  BY DEF SalesInv
<1>2. stage[k] = "counting"
  BY DEF Create, Counted
<1>3. order[k] = "none" /\ k \notin lapsed
  BY <1>1, <1>2 DEF StageTellsOrder
<1>4. /\ order' \in [Purchase -> {"none", "PENDING", "PAID", "FAILED"}]
      /\ order'[k] = "PENDING"
      /\ \A j \in Purchase \ {k} : order'[j] = order[j]
  BY <1>1 DEF SalesTypeOK, Create
<1>5. /\ stage' \in [Purchase -> {"idle", "counting", "settling", "done"}]
      /\ stage'[k] = (IF k \in Credit THEN "settling" ELSE "done")
      /\ \A j \in Purchase \ {k} : stage'[j] = stage[j]
  BY <1>1 DEF SalesTypeOK, Create, GoesTo
<1>6. /\ seen' \in [Purchase -> [Query -> Nat \cup {Unread}]]
      /\ \A j \in Purchase \ {k} : seen'[j] = seen[j]
  BY <1>1 DEF SalesTypeOK, Create, Forget
<1>7. /\ disturbed' \in SUBSET Purchase /\ disturbed \subseteq disturbed'
      /\ k \in disturbed' => k \in disturbed
      /\ \A j \in Purchase \ {k} : stage[j] = "counting" => j \in disturbed'
  BY <1>1 DEF SalesTypeOK, Create, Disturb
<1>8. UNCHANGED <<phase, channel, lapsed, sale, staffSold, manual>>
  BY DEF Create, doorVars
<1>9. QED
  BY <1>3, <1>4, <1>5, <1>6, <1>7, <1>8

\* The credits of a creation: its quantity goes from the balance to its row.
LEMMA CreateCredits ==
    ASSUME SalesInv, NEW k \in Purchase, Create(k)
    PROVE  CreditsConserved' /\ balance' \in Nat /\ redeemed' \in SUBSET Purchase
<1>1. SalesTypeOK /\ CreditsConserved
  BY DEF SalesInv
<1>2. /\ order[k] = "none" /\ order'[k] = "PENDING"
      /\ \A j \in Purchase \ {k} : order'[j] = order[j]
  BY CreateFacts
<1>3. Credit \subseteq Purchase
  BY SalesAssumption
<1>4. CASE k \notin Credit
  <2>1. UNCHANGED <<balance, redeemed>>
    BY <1>4 DEF Create, creditVars
  <2>2. {j \in Credit : order'[j] # "none"} = {j \in Credit : order[j] # "none"}
    BY <1>2, <1>3, <1>4
  <2>3. QED
    BY <1>1, <2>1, <2>2 DEF CreditsConserved, SalesTypeOK, Tickets, TicketsOf
<1>5. CASE k \in Credit
  <2>1. /\ balance >= Quantity[k] /\ balance' = balance - Quantity[k]
        /\ redeemed' = redeemed \cup {k}
    BY <1>5 DEF Create, Redeem
  <2>2. redeemed \in SUBSET Purchase /\ k \notin redeemed /\ balance \in Nat
    BY <1>1, <1>2 DEF CreditsConserved, SalesTypeOK
  <2>3. /\ Tickets(redeemed') = Tickets(redeemed) + Quantity[k]
        /\ Tickets(redeemed) \in Nat /\ Quantity[k] \in 1..10
    BY <2>1, <2>2, OneMoreOrder
  <2>4. Tickets(redeemed)' = Tickets(redeemed')
    BY DEF Tickets, TicketsOf
  <2>5. redeemed' = {j \in Credit : order'[j] # "none"}
    BY <1>1, <1>2, <1>3, <1>5, <2>1 DEF CreditsConserved
  <2>6. balance' \in Nat /\ balance' + Tickets(redeemed)' = Balance
    BY <1>1, <2>1, <2>2, <2>3, <2>4 DEF CreditsConserved
  <2>7. QED
    BY <1>3, <2>1, <2>2, <2>5, <2>6 DEF CreditsConserved
<1>6. QED
  BY <1>4, <1>5

LEMMA CreateInv ==
    ASSUME SalesInv, NEW k \in Purchase, Create(k)
    PROVE  SalesInv'
<1>1. SalesTypeOK /\ StageTellsOrder /\ UndisturbedFit
  BY DEF SalesInv
<1>2. SalesTypeOK'
  BY <1>1, CreateFacts, CreateCredits DEF SalesTypeOK
<1>3. StageTellsOrder'
  <2>1. ASSUME NEW j \in Purchase
        PROVE  /\ stage'[j] \in {"idle", "counting"} => order'[j] = "none"
               /\ stage'[j] = "idle" => \A q \in Query : seen'[j][q] = Unread
               /\ stage'[j] = "settling" => order'[j] = "PENDING" /\ j \in Credit
    <3>1. CASE j = k
      BY <3>1, CreateFacts
    <3>2. CASE j # k
      BY <1>1, <3>2, CreateFacts DEF StageTellsOrder
    <3>3. QED
      BY <3>1, <3>2
  <2>2. \A j \in lapsed' : order'[j] # "none"
    BY <1>1, CreateFacts DEF StageTellsOrder, SalesTypeOK
  <2>3. \A j \in Purchase : order'[j] = "FAILED" => j \in lapsed'
    BY <1>1, CreateFacts DEF StageTellsOrder
  <2>4. QED
    BY <2>1, <2>2, <2>3 DEF StageTellsOrder
<1>4. CountIsCovered'
  <2>1. \A j \in Purchase : stage'[j] = "counting" => j \in disturbed'
    BY CreateFacts
  <2>2. QED
    BY <2>1, AllDisturbed
<1>5. UndisturbedFit'
  <2>1. Undisturbed' \subseteq Undisturbed \cup {k}
    BY CreateFacts DEF Undisturbed
  <2>2. CASE k \notin Undisturbed'
    <3>1. Undisturbed' \subseteq Undisturbed
      BY <2>1, <2>2
    <3>2. QED
      BY <3>1, FitStays
  <2>3. CASE k \in Undisturbed'
    <3>1. channel[k] = "PRESALE" /\ k \notin disturbed
      BY <2>3, CreateFacts DEF Undisturbed
    <3>2. /\ Load("PRESALE") \in Nat /\ Quantity[k] \in 1..10
          /\ Load("PRESALE") + Quantity[k] <= PresaleCap
      <4>1. Counted(k) /\ RoomFor(k)
        BY DEF Create
      <4>2. QED
        BY <3>1, <4>1, CountedIsLoad DEF Cap
    <3>3. Tickets(Undisturbed) \in Nat /\ Tickets(Undisturbed) <= Load("PRESALE")
      BY <1>1, UndisturbedInLoad
    <3>4. Tickets(Undisturbed \cup {k}) = Tickets(Undisturbed) + Quantity[k]
      <4>1. Undisturbed \in SUBSET Purchase /\ k \notin Undisturbed
        BY CreateFacts DEF Undisturbed
      <4>2. QED
        BY <4>1, OneMoreOrder
    <3>5. /\ Tickets(Undisturbed') \in Nat /\ Tickets(Undisturbed \cup {k}) \in Nat
          /\ Tickets(Undisturbed') <= Tickets(Undisturbed \cup {k})
      <4>1. Undisturbed \cup {k} \in SUBSET Purchase
        BY DEF Undisturbed
      <4>2. QED
        BY <2>1, <4>1, TicketsGrow
    <3>6. Tickets(Undisturbed)' = Tickets(Undisturbed')
      BY DEF Tickets, TicketsOf
    <3>7. PresaleCap \in Nat
      BY SalesAssumption
    <3>8. QED
      BY <3>2, <3>3, <3>4, <3>5, <3>6, <3>7 DEF UndisturbedFit
  <2>4. QED
    BY <2>2, <2>3
<1>6. QED
  BY <1>2, <1>3, <1>4, <1>5, CreateCredits DEF SalesInv

LEMMA SalesInitInv == SalesInit => SalesInv
<1> SUFFICES ASSUME SalesInit
             PROVE  SalesInv
  OBVIOUS
<1>1. SalesTypeOK
  BY SalesAssumption DEF SalesInit, SalesTypeOK, Channel
<1>2. StageTellsOrder /\ CountIsCovered
  BY DEF SalesInit, StageTellsOrder, CountIsCovered
<1>3. UndisturbedFit
  <2>1. Undisturbed = {}
    BY DEF SalesInit, Undisturbed
  <2>2. QED
    BY <2>1, TicketsNone, SalesAssumption DEF UndisturbedFit
<1>4. CreditsConserved
  <2>1. /\ redeemed = {} /\ balance = Balance /\ Balance \in Nat
        /\ {k \in Credit : order[k] # "none"} = {}
    BY SalesAssumption DEF SalesInit
  <2>2. QED
    BY <2>1, TicketsNone DEF CreditsConserved
<1>5. QED
  BY <1>1, <1>2, <1>3, <1>4 DEF SalesInv

LEMMA SalesNextInv == SalesInv /\ [SalesNext]_salesVars => SalesInv'
<1> SUFFICES ASSUME SalesInv, [SalesNext]_salesVars
             PROVE  SalesInv'
  OBVIOUS
<1>1. SalesTypeOK
  BY DEF SalesInv
<1>2. ASSUME NEW k \in Purchase, Begin(k)
      PROVE  SalesInv'
  BY <1>2, BeginInv
<1>3. ASSUME NEW k \in Purchase, NEW q \in Query, RunQuery(k, q)
      PROVE  SalesInv'
  BY <1>3, RunQueryInv
<1>4. ASSUME NEW k \in Purchase, SoldOut(k) \/ NoCredits(k) \/ Crash(k)
      PROVE  SalesInv'
  BY <1>4, EndsInv DEF SoldOut, NoCredits, Crash, Counted
<1>5. ASSUME NEW k \in Purchase, Create(k)
      PROVE  SalesInv'
  BY <1>5, CreateInv
<1>6. ASSUME NEW k \in Purchase, SettleFree(k)
      PROVE  SalesInv'
  <2>1. order[k] = "PENDING" /\ stage'[k] = "done"
    BY <1>1, <1>6
      DEF SalesInv, SalesTypeOK, StageTellsOrder, SettleFree, GoesTo
  <2>2. QED
    BY <1>6, <2>1, SettlesInv DEF SettleFree
<1>7. ASSUME NEW k \in Purchase, Settle(k)
      PROVE  SalesInv'
  <2>1. stage[k] # "settling"
    BY <1>7 DEF SalesInv, StageTellsOrder, Settle
  <2>2. QED
    BY <1>7, <2>1, SettlesInv DEF Settle
<1>8. ASSUME NEW k \in Purchase, Expire(k) \/ Refuse(k)
      PROVE  SalesInv'
  BY <1>8, LapsesInv
<1>9. ASSUME NEW s \in Sale, CheckDoor(s)
      PROVE  SalesInv'
  <2>1. SalesTypeOK'
    BY <1>1, <1>9 DEF SalesTypeOK, CheckDoor, creditVars
  <2>2. manual' <= manual
    BY <1>1, <1>9, SalesAssumption DEF SalesTypeOK, CheckDoor
  <2>3. QED
    BY <1>9, <2>1, <2>2, AsideSalesInv DEF CheckDoor, creditVars
<1>10. ASSUME NEW s \in Sale, SellAtDoor(s)
       PROVE  SalesInv'
  <2>1. /\ manual' \in 0..MaxManual /\ staffSold' \in Nat
        /\ sale' \in [Sale -> {"idle", "checked", "done"}]
    BY <1>1, <1>10, SalesAssumption DEF SalesTypeOK, SellAtDoor
  <2>2. QED
    BY <1>10, <2>1, EntersInv DEF SellAtDoor
<1>11. ASSUME RegisterManual
       PROVE  SalesInv'
  <2>1. manual' \in 0..MaxManual
    BY <1>1, <1>11, SalesAssumption DEF SalesTypeOK, RegisterManual
  <2>2. QED
    BY <1>1, <1>11, <2>1, EntersInv DEF RegisterManual, SalesTypeOK
<1>12. ASSUME VoidManual
       PROVE  SalesInv'
  <2>1. manual' \in 0..MaxManual /\ manual' <= manual
    BY <1>1, <1>12, SalesAssumption DEF SalesTypeOK, VoidManual
  <2>2. SalesTypeOK'
    BY <1>1, <1>12, <2>1 DEF SalesTypeOK, VoidManual, creditVars
  <2>3. QED
    BY <1>12, <2>1, <2>2, AsideSalesInv DEF VoidManual, creditVars
<1>13. ASSUME Pass
       PROVE  SalesInv'
  <2>1. SalesTypeOK' /\ manual' <= manual
    BY <1>1, <1>13, SalesAssumption DEF SalesTypeOK, Pass, doorVars, creditVars
  <2>2. QED
    BY <1>13, <2>1, AsideSalesInv DEF Pass, doorVars, creditVars
<1>14. CASE UNCHANGED salesVars
  <2>1. SalesTypeOK' /\ manual' <= manual
    BY <1>1, <1>14, SalesAssumption
      DEF SalesTypeOK, salesVars, doorVars, creditVars
  <2>2. QED
    BY <1>14, <2>1, AsideSalesInv DEF salesVars, doorVars, creditVars
<1>15. QED
  BY <1>2, <1>3, <1>4, <1>5, <1>6, <1>7, <1>8, <1>9, <1>10, <1>11, <1>12,
     <1>13, <1>14
  DEF SalesNext, Buy

LEMMA SalesAlways == SalesSpec => []SalesInv
  BY SalesInitInv, SalesNextInv, PTL DEF SalesSpec

\* Every variable of the sales keeps its type.
THEOREM SalesTyped == SalesSpec => []SalesTypeOK
<1>1. SalesInv => SalesTypeOK
  BY DEF SalesInv
<1>2. QED
  BY <1>1, SalesAlways, PTL

\* The presale of purchaseTicket sells more than its cap only through orders
\* that overlapped another sale, or that were paid after they had expired or
\* been refused.
THEOREM OversoldOnlyByRaces == SalesSpec => []PresaleOversoldOnlyByRaces
<1>1. SalesInv => PresaleOversoldOnlyByRaces
  <2> SUFFICES ASSUME SalesInv
               PROVE  PresaleOversoldOnlyByRaces
    OBVIOUS
  <2> DEFINE presale == {k \in Purchase : /\ channel[k] = "PRESALE"
                                         /\ order[k] \in {"PENDING", "PAID"}}
             late    == {k \in lapsed : order[k] = "PAID"}
             held    == {k \in presale : order[k] = "PAID" \/ k \notin lapsed}
  <2>1. ASSUME (disturbed \cup late) \cap presale = {}
        PROVE  Tickets(held) <= PresaleCap
    <3>1. held = Undisturbed
      BY <2>1 DEF Undisturbed
    <3>2. QED
      BY <3>1 DEF SalesInv, UndisturbedFit
  <2>2. QED
    BY <2>1 DEF PresaleOversoldOnlyByRaces
<1>2. QED
  BY <1>1, SalesAlways, PTL

\* The credits of a pass are the balance and what existing orders redeemed.
THEOREM NoCreditLost == SalesSpec => []CreditsConserved
<1>1. SalesInv => CreditsConserved
  BY DEF SalesInv
<1>2. QED
  BY <1>1, SalesAlways, PTL

\* An order that nothing disturbed is created within the cap of its channel,
\* in the presale and at the door.
THEOREM OrdersWithinCap == SalesSpec => CreatedWithinCap
<1>1. ASSUME SalesInv, NEW k \in Purchase, Create(k), k \notin disturbed
      PROVE  Load(channel[k])' <= Cap(channel[k])
  <2>1. PICK c \in Channel : c = channel[k]
    BY <1>1 DEF SalesInv, SalesTypeOK
  <2>2. Load(c) \in Nat /\ Quantity[k] \in 1..10 /\ Load(c) + Quantity[k] <= Cap(c)
    BY <1>1, <2>1, CountedIsLoad DEF Create
  <2>3. \A d \in Channel, q \in Query : Count(d, q) \in Nat
    BY <1>1, CountTyped DEF SalesInv
  <2>4. UNCHANGED <<channel, lapsed, staffSold, manual>>
    BY <1>1, CreateFacts
  <2>5. Orders(c, "PAID")' = Orders(c, "PAID")
    BY <1>1, <2>4, CreateFacts DEF Orders
  <2>6. Orders(c, "PENDING")' \ lapsed' = (Orders(c, "PENDING") \ lapsed) \cup {k}
    BY <1>1, <2>1, <2>4, CreateFacts DEF Orders
  <2>7. /\ Orders(c, "PENDING") \ lapsed \in SUBSET Purchase
        /\ k \notin Orders(c, "PENDING") \ lapsed
    BY <1>1, CreateFacts DEF Orders
  <2>8. Pending(c)' = Pending(c) + Quantity[k]
    BY <2>6, <2>7, OneMoreOrder DEF Pending, Tickets, TicketsOf
  <2>9. /\ Count(c, "sold")' = Count(c, "sold")
        /\ Count(c, "pending")' = Count(c, "pending") + Quantity[k]
        /\ Count(c, "manual")' = Count(c, "manual")
    BY <2>4, <2>5, <2>8 DEF Count
  <2>10. Load(c) = Count(c, "sold") + Count(c, "pending")
                      + (IF c = "DOOR" THEN Count(c, "manual") ELSE 0)
    BY DEF Load, Total, Query
  <2>11. Load(c)' = Count(c, "sold")' + Count(c, "pending")'
                       + (IF c = "DOOR" THEN Count(c, "manual")' ELSE 0)
    BY DEF Load, Total, Query
  <2>12. Load(c)' <= Cap(c)
    BY <2>2, <2>3, <2>9, <2>10, <2>11 DEF Query
  <2>13. Load(channel[k])' = Load(c)'
    BY <2>1, <2>4
  <2>14. QED
    BY <2>1, <2>12, <2>13
<1>2. ASSUME SalesInv, SalesNext, NEW k \in Purchase,
             order[k] = "none", order'[k] = "PENDING", k \notin disturbed
      PROVE  Load(channel[k])' <= Cap(channel[k])
  <2>1. SalesTypeOK /\ StageTellsOrder
    BY <1>2 DEF SalesInv
  <2>2. Create(k)
    <3>1. ASSUME NEW j \in Purchase, Create(j)
          PROVE  j = k
      BY <1>2, <3>1, CreateFacts
    <3>2. ASSUME NEW j \in Purchase,
                 SettleFree(j) \/ Settle(j) \/ Refuse(j)
          PROVE  order'[k] # "PENDING"
      BY <1>2, <2>1, <3>2 DEF SalesTypeOK, StageTellsOrder, SettleFree, Settle,
          Refuse
    <3>3. \A j \in Purchase :
             /\ ~Begin(j) /\ ~SoldOut(j) /\ ~NoCredits(j) /\ ~Crash(j) /\ ~Expire(j)
             /\ \A q \in Query : ~RunQuery(j, q)
      BY <1>2 DEF Begin, SoldOut, NoCredits, Crash, Expire, RunQuery
    <3>4. /\ ~RegisterManual /\ ~VoidManual /\ ~Pass
          /\ \A s \in Sale : ~CheckDoor(s) /\ ~SellAtDoor(s)
      BY <1>2 DEF RegisterManual, VoidManual, Pass, CheckDoor, SellAtDoor
    <3>5. QED
      BY <1>2, <3>1, <3>2, <3>3, <3>4 DEF SalesNext, Buy
  <2>3. QED
    BY <1>1, <1>2, <2>2
<1>3. SalesInv /\ [SalesNext]_salesVars =>
        [\A k \in Purchase :
            (order[k] = "none" /\ order'[k] = "PENDING" /\ k \notin disturbed)
               => Load(channel[k])' <= Cap(channel[k])]_salesVars
  BY <1>2
<1>4. QED
  BY <1>3, SalesAlways, PTL DEF SalesSpec, CreatedWithinCap

=============================================================================
