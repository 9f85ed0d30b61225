-------------------------- MODULE TerminalSession --------------------------
(***************************************************************************)
(* Terminal sessions: a row of terminal_sessions is created for a VM that  *)
(* is ready, claimed by a WebSocket, and closed when the socket is done.   *)
(* A row may be claimed by several sockets, before and after one another;  *)
(* meanwhile the VM changes, the guest goes down, clients leave, rows pass *)
(* their expiry, and the panel's process may die.                          *)
(***************************************************************************)
CONSTANTS
    Sessions,   \* session ids of one VM
    Sockets,    \* concurrent calls of terminal_websocket
    NoSession

ASSUME NoSessionAssumption == NoSession \notin Sessions

VARIABLES
    status,    \* terminal_sessions.status; "none": no row yet
    overdue,   \* the sessions whose expires_at has passed
    ready,     \* the VM is live, running, has an address, and SSH is ready
    guestUp,   \* its guest answers SSH
    sock,      \* the calls of terminal_websocket
    left       \* ghost: rows a call left connected without reaching its try block

vars == <<status, overdue, ready, guestUp, sock, left>>

\* TerminalSessionStatus; the code never sets "error".
TerminalSessionStatuses == {"pending", "connected", "closed", "expired"}
Ended == {"closed", "expired"}

\* A call is at its next await: "found" to "claim" are in validate_and_claim_session,
\* "claimed" is the refresh at its end. line: the SSH connection is whole;
\* client: the browser is there; seen: the status the ORM has loaded.
PCs == {"overdue", "found", "claim", "claimed", "accept", "dial", "open", "closing"}
Working == {"claimed", "accept", "dial", "open", "closing"}
Calls == [pc: PCs, of: Sessions, line: BOOLEAN, client: BOOLEAN,
          seen: TerminalSessionStatuses \cup {"none"}]
Idle == [pc |-> "idle", of |-> NoSession, seen |-> "none", line |-> FALSE, client |-> FALSE]

Init ==
    /\ status = [s \in Sessions |-> "none"]
    /\ overdue = {} /\ left = {}
    /\ ready = FALSE /\ guestUp = FALSE
    /\ sock = [k \in Sockets |-> Idle]

At(k, pc) == sock[k].pc = pc
Goto(k, pc) == sock' = [sock EXCEPT ![k].pc = pc]
Return(k) == sock' = [sock EXCEPT ![k] = Idle]

-----------------------------------------------------------------------------
(* The VM, time and the API.                                               *)

\* Jobs and recheck_ssh write the row of the VM.
RowChanges ==
    /\ ready' = ~ready
    /\ UNCHANGED <<status, overdue, guestUp, sock, left>>

\* With the guest every connection to it is lost, also if it comes back at once.
GuestChanges ==
    /\ guestUp' = ~guestUp
    /\ sock' = [k \in Sockets |->
                  IF At(k, "open") THEN [sock[k] EXCEPT !.line = FALSE] ELSE sock[k]]
    /\ UNCHANGED <<status, overdue, ready, left>>

\* create_terminal_session.
Create(s) ==
    /\ status[s] = "none" /\ ready
    /\ status' = [status EXCEPT ![s] = "pending"]
    /\ UNCHANGED <<overdue, ready, guestUp, sock, left>>

TimePasses(s) ==
    /\ status[s] # "none"
    /\ overdue' = overdue \cup {s}
    /\ UNCHANGED <<status, ready, guestUp, sock, left>>

ClientLeaves(k) ==
    /\ ~At(k, "idle")
    /\ sock' = [sock EXCEPT ![k].client = FALSE]
    /\ UNCHANGED <<status, overdue, ready, guestUp, left>>

-----------------------------------------------------------------------------
(* validate_and_claim_session.                                             *)

\* A socket is opened and the row of its session read, and compared with the clock.
Open(k, s) ==
    /\ At(k, "idle") /\ status[s] \in {"pending", "connected"}
    /\ sock' = [sock EXCEPT ![k] =
                   [Idle EXCEPT !.pc = IF s \in overdue THEN "overdue" ELSE "found",
                                !.of = s, !.client = TRUE]]
    /\ UNCHANGED <<status, overdue, ready, guestUp, left>>

\* The row is marked whatever became of it since it was read.
MarkExpired(k) ==
    /\ At(k, "overdue")
    /\ status' = [status EXCEPT ![sock[k].of] = "expired"]
    /\ Return(k)
    /\ UNCHANGED <<overdue, ready, guestUp, left>>

CheckVm(k) ==
    /\ At(k, "found")
    /\ IF ready THEN Goto(k, "claim") ELSE Return(k)
    /\ UNCHANGED <<status, overdue, ready, guestUp, left>>

\* Mutant: the row is claimed because it was open when it was read.
ClaimAnyway(k) ==
    /\ At(k, "claim")
    /\ status' = [status EXCEPT ![sock[k].of] = "connected"]
    /\ Goto(k, "claimed")
    /\ UNCHANGED <<overdue, ready, guestUp, left>>

\* UPDATE ... WHERE status IN ('pending', 'connected').
Claim(k) ==
    /\ At(k, "claim")
    /\ IF status[sock[k].of] \notin Ended
       THEN status' = [status EXCEPT ![sock[k].of] = "connected"] /\ Goto(k, "claimed")
       ELSE UNCHANGED status /\ Return(k)
    /\ UNCHANGED <<overdue, ready, guestUp, left>>

Refresh(k) ==
    /\ At(k, "claimed")
    /\ sock' = [sock EXCEPT ![k].pc = "accept", ![k].seen = status[sock[k].of]]
    /\ UNCHANGED <<status, overdue, ready, guestUp, left>>

-----------------------------------------------------------------------------
(* terminal_websocket.                                                     *)

\* accept and the first message are outside the try block: if they raise, nobody
\* closes the row. They may raise for a reason other than the client's leaving.
Accept(k) ==
    /\ At(k, "accept")
    /\ \/ Goto(k, "dial") /\ UNCHANGED left
       \/ Return(k) /\ left' = left \cup {sock[k].of}
    /\ UNCHANGED <<status, overdue, ready, guestUp>>

\* Mutant: a failed dial skips the closing of the row.
DialOrReturn(k) ==
    /\ At(k, "dial")
    /\ \/ guestUp /\ sock' = [sock EXCEPT ![k].pc = "open", ![k].line = TRUE]
       \/ Return(k)
    /\ UNCHANGED <<status, overdue, ready, guestUp, left>>

Dial(k) ==
    /\ At(k, "dial")
    /\ \/ guestUp /\ sock' = [sock EXCEPT ![k].pc = "open", ![k].line = TRUE]
       \/ Goto(k, "closing")
    /\ UNCHANGED <<status, overdue, ready, guestUp, left>>

\* Mutant: the call waits for both of its pumps.
BothPumpsEnd(k) ==
    /\ At(k, "open") /\ ~sock[k].line /\ ~sock[k].client
    /\ Goto(k, "closing")
    /\ UNCHANGED <<status, overdue, ready, guestUp, left>>

\* The first pump to end ends the call: ssh_to_ws when keepalives go unanswered,
\* ws_to_ssh when the client is gone.
PumpEnds(k) ==
    /\ At(k, "open") /\ (~sock[k].line \/ ~sock[k].client)
    /\ Goto(k, "closing")
    /\ UNCHANGED <<status, overdue, ready, guestUp, left>>

\* The shell may exit, and the client be silent for half an hour; while the
\* dashboard shows the tab its pings prevent the latter.
UserEnds(k) ==
    /\ At(k, "open")
    /\ Goto(k, "closing")
    /\ UNCHANGED <<status, overdue, ready, guestUp, left>>

\* Mutant: the reason of the close lands in the row.
CloseAsReason(k) ==
    /\ At(k, "closing")
    /\ status' = [status EXCEPT ![sock[k].of] = "ssh_error"]
    /\ Return(k)
    /\ UNCHANGED <<overdue, ready, guestUp, left>>

\* finally. The ORM writes the status only if it differs from the one it has loaded.
Close(k) ==
    /\ At(k, "closing")
    /\ status' = IF sock[k].seen = "closed" THEN status
                 ELSE [status EXCEPT ![sock[k].of] = "closed"]
    /\ Return(k)
    /\ UNCHANGED <<overdue, ready, guestUp, left>>

\* The process dies: no finally clause runs.
Crash ==
    /\ left' = left \cup {sock[k].of : k \in {j \in Sockets : sock[j].pc \in Working}}
    /\ sock' = [k \in Sockets |-> Idle]
    /\ UNCHANGED <<status, overdue, ready, guestUp>>

-----------------------------------------------------------------------------
Call(k) ==
    \/ MarkExpired(k) \/ CheckVm(k) \/ Claim(k) \/ Refresh(k)
    \/ Accept(k) \/ Dial(k) \/ PumpEnds(k) \/ Close(k)

Next ==
    \/ RowChanges \/ GuestChanges \/ Crash
    \/ \E s \in Sessions : Create(s) \/ TimePasses(s)
    \/ \E k \in Sockets : ClientLeaves(k) \/ UserEnds(k) \/ Call(k)
    \/ \E k \in Sockets, s \in Sessions : Open(k, s)

Spec == Init /\ [][Next]_vars
FairSpec == Spec /\ \A k \in Sockets : WF_vars(Call(k))

-----------------------------------------------------------------------------
(* Properties.                                                             *)

TypeOK ==
    /\ status \in [Sessions -> TerminalSessionStatuses \cup {"none"}]
    /\ overdue \subseteq Sessions /\ left \subseteq Sessions
    /\ ready \in BOOLEAN /\ guestUp \in BOOLEAN
    /\ sock \in [Sockets -> Calls \cup {Idle}]

\* A session that has been closed or expired is never connected again, although a
\* call may have found it open before (validate_and_claim_session).
EndedStaysEnded ==
    [][\A s \in Sessions : status[s] \in Ended => status'[s] \in Ended]_vars

\* A row says connected only while some call is at work on it and will close it;
\* the exceptions are the rows of calls that died or could not be accepted.
ConnectedIsServed ==
    \A s \in Sessions :
        status[s] = "connected" =>
            s \in left \/ \E k \in Sockets : sock[k].of = s /\ sock[k].pc \in Working

\* A call whose client has left, or whose guest is gone, ends, wherever in the
\* protocol that happened (login_timeout, keepalives and the two pumps).
CallsEnd ==
    \A k \in Sockets :
        /\ ~At(k, "idle") /\ ~sock[k].client ~> At(k, "idle")
        /\ At(k, "open") /\ ~sock[k].line ~> At(k, "idle")

=============================================================================
