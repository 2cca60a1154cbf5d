--------------------------- MODULE TicketCustody ---------------------------
(***************************************************************************)
(* Who holds a ticket and who entered with it: claim and transfer          *)
(* (tickets.controller.ts), and the check-ins of the door, online and      *)
(* synchronised from offline devices (checkins.service.ts).                *)
(*                                                                         *)
(* Every call reads first and writes later, in another statement; what it  *)
(* read may be out of date when it writes. A check-in is identified with   *)
(* the call that creates it.                                               *)
(***************************************************************************)
EXTENDS Naturals, FiniteSets

CONSTANTS
    Person,
    Ticket,       \* tickets of one event
    Buyer,        \* Buyer[t]: the person who paid for t, its first owner
    Claimable,    \* tickets issued with a claimToken
    Call,         \* API calls, each used at most once
    NoTicket, NoCall

ASSUME CustodyAssumption ==
    /\ Person # {}
    /\ Buyer \in [Ticket -> Person]
    /\ Claimable \subseteq Ticket
    /\ NoTicket \notin Ticket
    /\ NoCall \notin Call

VARIABLES
    owner,     \* Ticket.ownerId
    token,     \* tickets whose claimToken is not null
    status,    \* Ticket.status
    entry,     \* entry[k]: the Checkin row that call k created
    pc, job,   \* control and local variables of each call
    answer,    \* what each call answered
    raced      \* history: two calls about check-ins were ever in progress at once

vars == <<owner, token, status, entry, pc, job, answer, raced>>
ticketVars == <<owner, token, status>>

Kind == {"none", "claim", "transfer", "scan", "void", "out"}
Job == [kind : Kind, who : Person, to : Person, ticket : Ticket \cup {NoTicket},
        entry : Call \cup {NoCall}]
Entry == [exists : BOOLEAN, person : Person, pass : Ticket \cup {NoTicket},
          out : BOOLEAN, voided : BOOLEAN]

TypeOK ==
    /\ owner \in [Ticket -> Person]
    /\ token \subseteq Claimable
    /\ status \in [Ticket -> {"ACTIVE", "USED"}]
    /\ entry \in [Call -> Entry]
    /\ pc \in [Call -> {"idle", "read", "resolved", "done"}]
    /\ job \in [Call -> Job]
    /\ answer \in [Call -> {"none", "ok", "refused", "duplicate"}]
    /\ raced \in BOOLEAN

Anybody == CHOOSE p \in Person : TRUE
NoJob == [kind |-> "none", who |-> Anybody, to |-> Anybody, ticket |-> NoTicket,
          entry |-> NoCall]
NoEntry == [exists |-> FALSE, person |-> Anybody, pass |-> NoTicket,
            out |-> FALSE, voided |-> FALSE]

Init ==
    /\ owner = Buyer
    /\ token = Claimable
    /\ status = [t \in Ticket |-> "ACTIVE"]
    /\ entry = [k \in Call |-> NoEntry]
    /\ pc = [k \in Call |-> "idle"]
    /\ job = [k \in Call |-> NoJob]
    /\ answer = [k \in Call |-> "none"]
    /\ raced = FALSE

Goto(k, step) == pc' = [pc EXCEPT ![k] = step]

Answer(k, a) ==
    /\ Goto(k, "done")
    /\ answer' = [answer EXCEPT ![k] = a]
    /\ UNCHANGED raced

InProgress(k) == pc[k] \in {"read", "resolved"}
AtDoor == {"scan", "void", "out"}

\* A call begins with a read that the request is checked against.
Start(k, request) ==
    /\ pc[k] = "idle"
    /\ job' = [job EXCEPT ![k] = request]
    /\ Goto(k, "read")
    /\ raced' = (raced \/ (/\ request.kind \in AtDoor
                          /\ \E j \in Call : InProgress(j) /\ job[j].kind \in AtDoor))
    /\ UNCHANGED <<ticketVars, entry, answer>>

-----------------------------------------------------------------------------
\* claim: the ticket of the token is read; it must be ACTIVE and not one's own.
ReadClaim(k, who, t) ==
    /\ t \in token
    /\ owner[t] # who
    /\ status[t] = "ACTIVE"
    /\ Start(k, [NoJob EXCEPT !.kind = "claim", !.who = who, !.ticket = t])

\* Mutant of WriteClaim: UPDATE without the condition on the token.
WriteClaimById(k) ==
    LET t == job[k].ticket IN
    /\ pc[k] = "read" /\ job[k].kind = "claim"
    /\ owner' = [owner EXCEPT ![t] = job[k].who]
    /\ token' = token \ {t}
    /\ Answer(k, "ok")
    /\ UNCHANGED <<status, entry, job>>

\* updateMany WHERE id AND claimToken; who comes second is answered 404.
WriteClaim(k) ==
    LET t == job[k].ticket IN
    /\ pc[k] = "read" /\ job[k].kind = "claim"
    /\ IF t \in token
         THEN /\ owner' = [owner EXCEPT ![t] = job[k].who]
              /\ token' = token \ {t}
              /\ Answer(k, "ok")
         ELSE Answer(k, "refused") /\ UNCHANGED <<owner, token>>
    /\ UNCHANGED <<status, entry, job>>

\* transfer: by the owner, to another person, of an ACTIVE ticket.
ReadTransfer(k, who, to, t) ==
    /\ owner[t] = who
    /\ status[t] = "ACTIVE"
    /\ to # who
    /\ Start(k, [NoJob EXCEPT !.kind = "transfer", !.who = who, !.to = to, !.ticket = t])

\* update WHERE id: whatever became of the ticket meanwhile.
WriteTransfer(k) ==
    /\ pc[k] = "read" /\ job[k].kind = "transfer"
    /\ owner' = [owner EXCEPT ![job[k].ticket] = job[k].to]
    /\ token' = token \ {job[k].ticket}
    /\ Answer(k, "ok")
    /\ UNCHANGED <<status, entry, job>>

-----------------------------------------------------------------------------
\* Mutant of Open: outAt IS NOT NULL.
OpenClosed(p) == {k \in Call : entry[k].exists /\ entry[k].person = p /\ entry[k].out}

\* findOpenCheckin: outAt IS NULL, voided or not.
Open(p) == {k \in Call : entry[k].exists /\ entry[k].person = p /\ ~entry[k].out}

\* register, syncCheckin: an open check-in of the person answers "duplicate".
ReadOpen(k, p) == Open(p) = {} /\ Start(k, [NoJob EXCEPT !.kind = "scan", !.who = p])

RefuseDuplicate(k, p) ==
    /\ pc[k] = "idle"
    /\ Open(p) # {}
    /\ job' = [job EXCEPT ![k] = [NoJob EXCEPT !.kind = "scan", !.who = p]]
    /\ Answer(k, "duplicate")
    /\ UNCHANGED <<ticketVars, entry>>

\* Mutant of Passes: a used ticket resolves as well.
PassesAnyStatus(p) == {t \in Ticket : owner[t] = p}
Passes(p) == {t \in Ticket : owner[t] = p /\ status[t] = "ACTIVE"}

\* findActiveTicket: one of the person's ACTIVE tickets, or no pass at all.
ResolvePass(k) ==
    /\ pc[k] = "read" /\ job[k].kind = "scan"
    /\ LET found == Passes(job[k].who) IN
       \E t \in IF found = {} THEN {NoTicket} ELSE found :
          job' = [job EXCEPT ![k].ticket = t]
    /\ Goto(k, "resolved")
    /\ UNCHANGED <<ticketVars, entry, answer, raced>>

\* createCheckin: the check-in, and its ticket USED, in one transaction.
CreateCheckin(k) ==
    LET t == job[k].ticket IN
    /\ pc[k] = "resolved" /\ job[k].kind = "scan"
    /\ entry' = [entry EXCEPT ![k] = [NoEntry EXCEPT !.exists = TRUE,
                                        !.person = job[k].who, !.pass = t]]
    /\ status' = [x \in Ticket |-> IF x = t THEN "USED" ELSE status[x]]
    /\ Answer(k, "ok")
    /\ UNCHANGED <<owner, token, job>>

\* voidCheckin, closeCheckin: the check-in is read.
ReadVoid(k, e) ==
    /\ entry[e].exists /\ ~entry[e].voided
    /\ Start(k, [NoJob EXCEPT !.kind = "void", !.entry = e])

ReadOut(k, e) ==
    /\ entry[e].exists /\ ~entry[e].out /\ ~entry[e].voided
    /\ Start(k, [NoJob EXCEPT !.kind = "out", !.entry = e])

\* The pass that the check-in consumed, if it still is USED.
Returned(e) == [t \in Ticket |-> IF t = entry[e].pass THEN "ACTIVE" ELSE status[t]]

\* Mutant of WriteVoid: the check-in is voided and the pass stays USED.
WriteVoidKeepingPass(k) ==
    LET e == job[k].entry IN
    /\ pc[k] = "read" /\ job[k].kind = "void"
    /\ entry' = [entry EXCEPT ![e].voided = TRUE]
    /\ Answer(k, "ok")
    /\ UNCHANGED <<owner, token, status, job>>

WriteVoid(k) ==
    LET e == job[k].entry IN
    /\ pc[k] = "read" /\ job[k].kind = "void"
    /\ entry' = [entry EXCEPT ![e].voided = TRUE]
    /\ status' = Returned(e)
    /\ Answer(k, "ok")
    /\ UNCHANGED <<owner, token, job>>

WriteOut(k) ==
    /\ pc[k] = "read" /\ job[k].kind = "out"
    /\ entry' = [entry EXCEPT ![job[k].entry].out = TRUE]
    /\ Answer(k, "ok")
    /\ UNCHANGED <<ticketVars, job>>

Next ==
    \E k \in Call :
        \/ \E p \in Person, t \in Ticket :
              ReadClaim(k, p, t) \/ \E q \in Person : ReadTransfer(k, p, q, t)
        \/ WriteClaim(k) \/ WriteTransfer(k)
        \/ \E p \in Person : ReadOpen(k, p) \/ RefuseDuplicate(k, p)
        \/ ResolvePass(k) \/ CreateCheckin(k)
        \/ \E e \in Call : ReadVoid(k, e) \/ ReadOut(k, e)
        \/ WriteVoid(k) \/ WriteOut(k)

Spec == Init /\ [][Next]_vars

-----------------------------------------------------------------------------
Did(k, kind) == job[k].kind = kind /\ answer[k] = "ok"
Standing == {k \in Call : entry[k].exists /\ ~entry[k].voided}

\* Two people never both claim one ticket, whatever they and a transfer do at
\* the same time (claim-links/spec.md:43: the first one gets it).
OneClaimPerTicket ==
    \A j, k \in Call :
        (Did(j, "claim") /\ Did(k, "claim") /\ job[j].ticket = job[k].ticket) => j = k

\* A claim link that works belongs to a ticket that never left its buyer: no
\* new owner can lose the ticket to a link that somebody else kept.
TokenOnlyWithBuyer == \A t \in token : owner[t] = Buyer[t]

\* No ticket is lost: a USED ticket always has a check-in that stands, however
\* scans and voids of the same ticket race.
UsedTicketHasEntry ==
    \A t \in Ticket : status[t] = "USED" => \E k \in Standing : entry[k].pass = t

\* As long as calls about check-ins follow one another, a ticket admits one
\* person once, unless its check-in is voided; claims and transfers may
\* interleave with them in any way (createCheckin, voidCheckin).
TicketAdmitsOne ==
    ~raced => \A j, k \in Standing :
        (entry[j].pass = entry[k].pass /\ entry[j].pass # NoTicket) => j = k

OnceInside ==
    \A j, k \in Standing :
        (entry[j].person = entry[k].person /\ ~entry[j].out /\ ~entry[k].out) => j = k

\* As long as calls about check-ins follow one another, a person who is inside
\* is inside once, through check-outs, re-entries and voids (register).
InsideOnce == ~raced => OnceInside

-----------------------------------------------------------------------------
=============================================================================
