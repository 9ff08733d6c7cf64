------------------------------- MODULE Proxy -------------------------------
(***************************************************************************)
(* One proxied connection from admission to release (cmd/nntpshaper,       *)
(* proxy): the downstream direction is DelayLine's, step by step, and the  *)
(* upstream direction, an instance of the same code, is the same two       *)
(* goroutines without the clock and with room for every chunk: an Abort    *)
(* drops what is queued and not the chunk that Deliver already holds,      *)
(* which is still written and counted by the census.  The proxy goroutine  *)
(* starts both, closes both sockets when the server's direction has ended, *)
(* waits for the client's and only then stops counting as an active        *)
(* connection of the execution lease.                                      *)
(*                                                                         *)
(* The client and the server are the environment: the server may send, end *)
(* or fail at any moment, the client may stop reading, end its stream or   *)
(* vanish.                                                                 *)
(***************************************************************************)
EXTENDS DelayLine

CONSTANTS
    MaxCommands     \* bound: chunks of commands read from the client

ASSUME CommandsAssumption == MaxCommands \in Nat

VARIABLES
    session,        \* the proxy goroutine: "handshake", "relaying", "joining", "returned"
    client,         \* the client's socket: "open", "halfClosed", "closed"
    up              \* the upstream goroutine (pc), the line's queue and its Deliver goroutine

downVars == vars
proxyVars == <<session, client, up>>
allVars == <<downVars, proxyVars>>

ProxyInit ==
    /\ Init
    /\ session = "handshake"                \* OpenDownstream has admitted it
    /\ client = "open"
    /\ up = [pc |-> "none", deliver |-> "next", queued |-> 0, failed |-> FALSE,
              observed |-> 0, halfClosed |-> FALSE]

(***************************************************************************)
(* The proxy goroutine.                                                    *)
(***************************************************************************)
\* The round trip is charged and the upstream dialled.
Dialled ==
    /\ session = "handshake"
    /\ session' = "relaying" /\ up' = [up EXCEPT !.pc = "reading"]
    /\ UNCHANGED <<downVars, client>>

\* The dial fails, or the process shuts down during the handshake.
NotDialled ==
    /\ session = "handshake"
    /\ session' = "returned"
    /\ UNCHANGED <<downVars, client, up>>

\* Mutant: both sockets are closed and the upstream goroutine is not waited for.
CloseBothAndReturn ==
    /\ session = "relaying" /\ producer.pc = "returned"
    /\ session' = "returned"
    /\ UNCHANGED <<downVars, client, up>>

\* copyDownstream has returned: both sockets are closed.
CloseBoth ==
    /\ session = "relaying" /\ producer.pc = "returned"
    /\ session' = "joining"
    /\ UNCHANGED <<downVars, client, up>>

\* <-upstreamDone, and the deferred release runs.
ProxyReturns ==
    /\ session = "joining" /\ up.pc = "ended"
    /\ session' = "returned"
    /\ UNCHANGED <<downVars, client, up>>

SocketsClosed == session \in {"joining", "returned"}

(***************************************************************************)
(* The upstream goroutine: copyUpstream and closeWrite.                    *)
(***************************************************************************)
Forwarding == up.pc \in {"reading", "draining"}
InHand == IF up.deliver \in {"holding", "counting"} THEN 1 ELSE 0

\* The relay reads a chunk of commands; a failed line refuses it.
UpRead ==
    /\ up.pc = "reading" /\ ~SocketsClosed
    /\ up.queued + InHand + up.observed < MaxCommands
    /\ up' = IF up.failed THEN [up EXCEPT !.pc = "draining"] ELSE [up EXCEPT !.queued = @ + 1]
    /\ UNCHANGED <<downVars, session, client>>

\* The client's stream ends, in order (CloseWrite) or by an error (Abort), as it
\* does when its socket was closed here.
UpReadEnds ==
    /\ up.pc = "reading" /\ (client # "open" \/ SocketsClosed)
    /\ \E error \in {TRUE, SocketsClosed} :
          /\ error => client = "closed" \/ SocketsClosed
          /\ up' = [up EXCEPT !.pc = "draining", !.failed = @ \/ error]
    /\ UNCHANGED <<downVars, session, client>>

\* Deliver's next: a failed line gives out nothing more.
UpTakes ==
    /\ Forwarding /\ up.deliver = "next" /\ ~up.failed /\ up.queued > 0
    /\ up' = [up EXCEPT !.deliver = "holding", !.queued = @ - 1]
    /\ UNCHANGED <<downVars, session, client>>

UpDeliverReturns ==
    /\ Forwarding /\ up.deliver = "next"
    /\ up.failed \/ (up.pc = "draining" /\ up.queued = 0)
    /\ up' = [up EXCEPT !.deliver = "returned"]
    /\ UNCHANGED <<downVars, session, client>>

\* The server takes the chunk, or a part of it, failed line or not; censusWriter then
\* owes what was taken to the census.
UpDelivers ==
    /\ up.deliver = "holding" /\ ~SocketsClosed
    /\ up' = [up EXCEPT !.deliver = "counting"]
    /\ UNCHANGED <<downVars, session, client>>

\* The server refuses it whole, or the process shuts down while it waits out its delay.
UpDeliveryFails ==
    /\ up.deliver = "holding"
    /\ up' = [up EXCEPT !.deliver = "returned", !.failed = TRUE]
    /\ UNCHANGED <<downVars, session, client>>

\* Observe; only then does the write return, with an error if the rest was refused.
UpObserves ==
    /\ up.deliver = "counting"
    /\ \E refused \in BOOLEAN :
          up' = [up EXCEPT !.deliver = IF refused THEN "returned" ELSE "next",
                           !.failed = @ \/ refused, !.observed = @ + 1]
    /\ UNCHANGED <<downVars, session, client>>

\* Mutant: the server is told only of an orderly end.
UpEndsQuietly ==
    /\ up.pc = "draining" /\ up.deliver = "returned"
    /\ up' = [up EXCEPT !.pc = "ended", !.halfClosed = ~up.failed]
    /\ UNCHANGED <<downVars, session, client>>

\* Mutant: a failed line is not waited for, as if Abort stopped its Deliver.
UpEndsAtAbort ==
    /\ up.pc = "draining" /\ (up.deliver = "returned" \/ up.failed)
    /\ up' = [up EXCEPT !.pc = "ended", !.halfClosed = TRUE]
    /\ UNCHANGED <<downVars, session, client>>

\* Deliver has returned; the upstream socket is half-closed whatever the error was.
UpEnds ==
    /\ up.pc = "draining" /\ up.deliver = "returned"
    /\ up' = [up EXCEPT !.pc = "ended", !.halfClosed = TRUE]
    /\ UNCHANGED <<downVars, session, client>>

(***************************************************************************)
(* The environment, and the downstream direction while it is relayed.      *)
(***************************************************************************)
ClientCloses ==
    /\ session # "returned"
    /\ \/ client = "open" /\ client' = "halfClosed"
       \/ client # "closed" /\ client' = "closed"
    /\ UNCHANGED <<downVars, session, up>>

\* The server ends the connection after the half-close it was sent.
ServerHangsUp == up.halfClosed /\ session = "relaying" /\ Read(0, "eof") /\ UNCHANGED proxyVars

SessionStep == Dialled \/ NotDialled \/ CloseBoth \/ ProxyReturns
DeliverStep == UpTakes \/ UpDeliverReturns \/ UpObserves
UpStep == UpReadEnds \/ DeliverStep \/ UpEnds
ServerStep == UpDelivers \/ UpDeliveryFails \/ (session = "relaying" /\ SourceStep /\ UNCHANGED proxyVars)
LineStep ==
    /\ session = "relaying"
    /\ ProducerStep \/ ConsumerStep \/ Tick
    /\ UNCHANGED proxyVars
Shutdown == session # "returned" /\ CancelContext /\ UNCHANGED proxyVars
ProxyDone == session = "returned" /\ UNCHANGED allVars

ProxyNext ==
    \/ SessionStep \/ UpRead \/ UpStep \/ ServerStep \/ ServerHangsUp
    \/ LineStep \/ ClientCloses \/ Shutdown \/ ProxyDone

\* Deliver of the downstream line is in a write to the client.
WritingToClient == consumer.pc = "sending"

\* Goroutines that can run do run, timers fire, and a read of an ended stream and a
\* write to a closed socket return.  Of the server it is assumed that with a command
\* waiting for it, it takes or refuses it, or sends or ends, and that it hangs up after a
\* half-close.  Of the client nothing is assumed: a write to one that keeps its socket and
\* stops reading may block for ever.
ProxyFairness ==
    /\ WF_allVars(session = "relaying" /\ ProducerStep /\ UNCHANGED proxyVars)
    /\ WF_allVars(session = "relaying" /\ ~WritingToClient /\ ConsumerStep /\ UNCHANGED proxyVars)
    /\ WF_allVars(session = "relaying" /\ client = "closed" /\ ConsumerStep /\ UNCHANGED proxyVars)
    /\ WF_allVars(session = "relaying" /\ Tick /\ UNCHANGED proxyVars)
    /\ WF_allVars(SessionStep) /\ WF_allVars(UpReadEnds) /\ WF_allVars(DeliverStep) /\ WF_allVars(UpEnds)
    /\ WF_allVars(up.deliver = "holding" /\ ServerStep) /\ WF_allVars(ServerHangsUp)

ProxySpec == ProxyInit /\ [][ProxyNext]_allVars /\ ProxyFairness

(***************************************************************************)
(* Properties.                                                             *)
(***************************************************************************)
QuietAfterRelease ==
    session = "returned" => delivered' = delivered /\ up'.observed = up.observed

\* The connection counts as active (proxy's deferred release) exactly as long as it can
\* move a byte: nothing is delivered or counted after the release, or the lease of the
\* next run would be charged with it, not even the chunk that Deliver held when the client
\* failed; and once the client has ended its stream the release comes, or the lease could
\* never be handed back, whatever was in flight in either direction.  One client is beyond it:
\* one that keeps its socket open and never takes a chunk that is being written to it.
ActiveWhileUsed ==
    /\ [][QuietAfterRelease]_allVars
    /\ client # "open" ~> (session = "returned" \/ [](WritingToClient /\ client = "halfClosed"))
=============================================================================
