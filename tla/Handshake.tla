------------------------------ MODULE Handshake ------------------------------
(***************************************************************************)
(* noVNC's handshake (core/rfb.js, _initMsg and what it calls) over the    *)
(* receive queue of its Websock (core/websock.js), with a server that      *)
(* answers what the client chose.                                          *)
(*                                                                         *)
(* The bytes of the stream are its protocol fields: rQwait(bytes) asks     *)
(* whether so many fields have arrived, and a shift takes the first ones.  *)
(* The network delivers any number of fields at a time.  A handler that    *)
(* lacks one returns false and is called again on the next delivery, from  *)
(* the beginning, so it must leave unread what it will read again.         *)
(* One call of a handler is one action; running says who called it.        *)
(***************************************************************************)
EXTENDS Integers, Sequences

CONSTANTS
    Versions,    \* versions that servers announce: 33, 37, 38, 0 (a repeater), or another
    TypeLists,   \* lists of security types that servers offer
    Options      \* credentials the page gives the constructor of RFB

\* Security type 0 is no type: a list of none is how a server refuses.
ASSUME HandshakeAssumption == Versions \subseteq Int /\ TypeLists \subseteq Seq(Nat \ {0})

VARIABLES
    net,      \* fields the server sent that have not arrived
    rQ,       \* the receive queue: fields that arrived and are unread
    up,       \* messages to the server that it has not read
    srv,      \* the server: what it waits for, and what was agreed
    rfb,      \* the RFB object
    running,  \* "loop" in _handleMessage, "once" in a call by a timer, or "no"
    misread   \* a field was taken for another

hsVars == <<net, rQ, up, srv, rfb, running, misread>>

F(f, v) == [f |-> f, v |-> v]

\* The security types by their numbers.
sec == [None |-> 1, VNCAuth |-> 2, Tight |-> 16, VeNCrypt |-> 19, XVP |-> 22, ARD |-> 30,
        MSLogonII |-> 113, UnixLogon |-> 129, Plain |-> 256]

\* All that the client offers; RA2ne is left out.
clientTypes == {sec[t] : t \in DOMAIN sec \ {"UnixLogon"}}

HandshakeInit ==
    /\ net = <<>> /\ rQ = <<>> /\ up = <<>>
    /\ srv = [at |-> "start", version |-> 0, tight |-> FALSE]
    /\ rfb \in [st : {"connecting"}, init : {"ProtocolVersion"}, version : {0},
                scheme : {0}, vencrypt : {0}, subtypes : {0}, tight : {FALSE},
                creds : Options, asked : {{}}, ard : {"no"}, resume : {FALSE}]
    /\ running = "no"
    /\ misread = FALSE

------------------------------------------------------------------------------
(* The server.                                                             *)

Behind(field, s) == [say |-> <<field>> \o s.say, at |-> s.at]

\* What a server says first when the security type t has been agreed on, and
\* what it then waits for.
TightAuths(v) ==
    {[say |-> <<F("auths", 0), F("result", 0)>>, at |-> "init"]}
    \cup {[say |-> <<F("auths", 1), F("auth", a)>>, at |-> "auth"] : a \in {1, sec.VNCAuth, sec.UnixLogon, 7}}

Begin(t, v) ==
    CASE t = sec.None -> {[say |-> IF v = 38 THEN <<F("result", 0)>> ELSE <<>>, at |-> "init"]}
      [] t = sec.VNCAuth -> {[say |-> <<F("challenge", 0)>>, at |-> "response"]}
      [] t = sec.ARD -> {[say |-> <<F("dh", 0), F("keys", 0)>>, at |-> "response"]}
      [] t = sec.MSLogonII -> {[say |-> <<F("params", 0)>>, at |-> "response"]}
      [] t \in {sec.Plain, sec.UnixLogon} -> {[say |-> <<>>, at |-> "response"]}
      [] t = sec.XVP -> {[say |-> <<>>, at |-> "xvp"]}
      [] t = sec.VeNCrypt -> {[say |-> <<F("vencrypt", n)>>, at |-> "vencrypt"] : n \in {1, 2}}
      [] t = sec.Tight -> {Behind(F("tunnels", 0), s) : s \in TightAuths(v)}
                      \cup {[say |-> <<F("tunnels", 1), F("tunnel", n)>>, at |-> "tunnel"] : n \in {0, 1, 2}}
      [] OTHER -> {[say |-> <<>>, at |-> "closed"]}

\* A turn of the server: what it says, and its state then.
Turn(s, version, tight) ==
    [say |-> s.say, srv |-> [at |-> s.at, version |-> version, tight |-> tight]]
Takes(turn) == net' = net \o turn.say /\ srv' = turn.srv

Many(f, l) == [k \in 1..Len(l) |-> F(f, l[k])]
Refused(reason) == [say |-> <<F("reasonLength", Len(reason))>> \o reason, at |-> "closed"]
Reasons == {<<>>, <<F("reason", 0)>>}
Greeting(v) == [say |-> <<F("version", v)>>, at |-> IF v = 0 THEN "id" ELSE "version"]

\* A repeater announces version 0 and waits for an ID before the real server speaks.
ServerGreets ==
    /\ srv.at = "start"
    /\ \E v \in Versions : Takes(Turn(Greeting(v), v, FALSE))
    /\ UNCHANGED <<rQ, up, rfb, running, misread>>

\* To a client of version 3.3 the server dictates the first type of its list.
Dictated == UNION {{Turn(Behind(F("scheme", l[1]), b), 33, l[1] = sec.Tight) : b \in Begin(l[1], 33)} :
                      l \in TypeLists \ {<<>>}}
Offered(version) ==
    {Turn([say |-> <<F("types", Len(l))>> \o Many("type", l), at |-> "type"], version, FALSE) :
        l \in TypeLists \ {<<>>}}
Refusals(f, version) == {Turn(Behind(F(f, 0), Refused(r)), version, FALSE) : r \in Reasons}

\* What the server s may answer to the client's message m.
Replies(m, s) ==
    CASE m.f = "id" /\ s.at = "id" -> {Turn(Greeting(v), v, FALSE) : v \in Versions \ {0}}
      [] m.f = "version" /\ s.at = "version" /\ m.v = 33 -> Dictated \cup Refusals("scheme", 33)
      [] m.f = "version" /\ s.at = "version" /\ m.v # 33 -> Offered(m.v) \cup Refusals("types", m.v)
      [] m.f = "type" /\ s.at \in {"type", "subtype"} ->
             {Turn(b, s.version, s.tight \/ m.v = sec.Tight) : b \in Begin(m.v, s.version)}
      [] m.f = "vencrypt" /\ s.at = "vencrypt" ->
             {Turn([say |-> <<F("ack", 1)>>, at |-> "closed"], s.version, FALSE)}
             \cup {Turn([say |-> <<F("ack", 0), F("subtypes", Len(l))>> \o Many("subtype", l),
                         at |-> "subtype"], s.version, FALSE) : l \in TypeLists}
      [] m.f = "tunnel" /\ s.at = "tunnel" -> {Turn(b, s.version, TRUE) : b \in TightAuths(s.version)}
      [] m.f = "auth" /\ s.at = "auth" ->
             IF m.v = 1 THEN {Turn([say |-> <<F("result", 0)>>, at |-> "init"], s.version, TRUE)}
                        ELSE {Turn(b, s.version, TRUE) : b \in Begin(m.v, s.version)}
      [] m.f = "xvp" /\ s.at = "xvp" ->
             {Turn(b, s.version, s.tight) : b \in Begin(sec.VNCAuth, s.version)}
      [] m.f = "response" /\ s.at = "response" ->
             {Turn([say |-> <<F("result", 0)>>, at |-> "init"], s.version, s.tight)}
             \cup IF s.version = 38
                  THEN {Turn(Behind(F("result", 1), Refused(r)), 38, s.tight) : r \in Reasons}
                  ELSE {Turn([say |-> <<F("result", 1)>>, at |-> "closed"], s.version, s.tight)}
      [] m.f = "init" /\ s.at = "init" ->
             {Turn([say |-> <<F("server", 0), F("name", 0)>>
                            \o IF s.tight THEN <<F("extended", 1), F("caps", 0)>> ELSE <<>>,
                    at |-> "normal"], 0, FALSE)}
      [] OTHER -> {}

\* The server reads the client's next message and answers it.
ServerReads ==
    /\ up # <<>> /\ srv.at # "normal"
    /\ \E turn \in Replies(Head(up), srv) : Takes(turn)
    /\ up' = Tail(up)
    /\ UNCHANGED <<rQ, rfb, running, misread>>

------------------------------------------------------------------------------
(* Reading, sending and returning.                                         *)

Drop(s, n) == SubSeq(s, n + 1, Len(s))

\* _recvMessage: some fields arrive, and _handleMessage runs on them.
Deliver ==
    /\ running = "no" /\ net # <<>>
    /\ \E n \in 1..Len(net) : /\ rQ' = rQ \o SubSeq(net, 1, n)
                              /\ net' = Drop(net, n)
    /\ running' = IF rfb.st = "over" THEN "no" ELSE "loop"
    /\ UNCHANGED <<up, srv, rfb, misread>>

\* num fields have not arrived beyond the n that this call has shifted.
rQwait(n, num) == Len(rQ) < n + num

\* The calls of shift in a handler: fields are what the handler takes them for.
Shift(fields) ==
    /\ rQ' = Drop(rQ, Len(fields))
    /\ misread' = (misread \/ \E k \in 1..Len(fields) : rQ[k].f # fields[k])

Return(ok, s) ==
    /\ rfb' = s
    /\ running' = IF ok /\ running = "loop" /\ s.st = "connecting" THEN "loop" ELSE "no"

\* The handler waits; back fields of the n that it shifted are put back.
Waits(n, back) ==
    /\ rQ' = Drop(rQ, n - back)
    /\ Return(FALSE, rfb)
    /\ UNCHANGED <<up, misread>>

Send(m) == up' = up \o m
Quiet == up' = up
Unread == UNCHANGED <<rQ, misread>>

fail(s) == [s EXCEPT !.st = "over"]

\* Asks the page for credentials it has not given.
Needs(types) == ~(types \subseteq rfb.creds)
Requires(types) == /\ Return(FALSE, [rfb EXCEPT !.asked = types])
                   /\ Unread /\ Quiet

\* One call of _initMsg in state s.
InitMsg(s) == running # "no" /\ rfb.st = "connecting" /\ rfb.init = s /\ UNCHANGED <<net, srv>>
Negotiate(t) == InitMsg("Authentication") /\ rfb.scheme = t

------------------------------------------------------------------------------
(* The version and the security type.                                      *)

negotiateProtocolVersion ==
    /\ InitMsg("ProtocolVersion")
    /\ IF rQwait(0, 1) THEN Waits(0, 0)
       ELSE LET v == rQ[1].v IN
            /\ Shift(<<"version">>)
            /\ IF v = 0 THEN Send(<<F("id", 0)>>) /\ Return(TRUE, rfb)
               ELSE IF v \in {33, 37, 38}
               THEN /\ Send(<<F("version", v)>>)
                    /\ Return(FALSE, [rfb EXCEPT !.version = v, !.init = "Security"])
               ELSE Quiet /\ Return(FALSE, fail(rfb))

\* The first type of l that the client supports; 0 if there is none.
Choice(l, types) ==
    LET ok == {k \in 1..Len(l) : l[k].v \in types}
    IN  IF ok = {} THEN 0 ELSE l[CHOOSE k \in ok : \A j \in ok : k <= j].v

Agreed(t) == [rfb EXCEPT !.scheme = t, !.init = "Authentication"]

negotiateSecurity ==
    /\ InitMsg("Security")
    /\ IF rfb.version >= 37
       THEN LET n == rQ[1].v
                l == SubSeq(rQ, 2, 1 + n)
            IN  IF rQwait(1, n) THEN Waits(1, 1)
                ELSE /\ Shift(<<"types">> \o [k \in 1..n |-> "type"])
                     /\ IF n = 0 THEN Quiet /\ Return(TRUE, [rfb EXCEPT !.init = "SecurityReason"])
                        ELSE LET t == Choice(l, clientTypes) IN
                             IF t = 0 THEN Quiet /\ Return(FALSE, fail(rfb))
                             ELSE Send(<<F("type", t)>>) /\ Return(TRUE, Agreed(t))
       ELSE IF rQwait(0, 1) THEN Waits(0, 0)
       ELSE /\ Shift(<<"scheme">>) /\ Quiet
            /\ Return(TRUE, IF rQ[1].v = 0 THEN [rfb EXCEPT !.init = "SecurityReason"]
                                           ELSE Agreed(rQ[1].v))

handleSecurityReason ==
    /\ InitMsg("SecurityReason")
    /\ IF rQwait(0, 1) THEN Waits(0, 0)
       ELSE IF rQwait(1, rQ[1].v) THEN Waits(1, 1)
       ELSE /\ Shift(<<"reasonLength">> \o [k \in 1..rQ[1].v |-> "reason"])
            /\ Quiet /\ Return(FALSE, fail(rfb))

------------------------------------------------------------------------------
(* Authentication.                                                         *)

\* A mutant: returns nothing, as _negotiateProtocolVersion does.
negotiateNoneStops ==
    /\ Negotiate(sec.None)
    /\ Unread /\ Quiet
    /\ Return(FALSE, [rfb EXCEPT !.init = IF rfb.version >= 38 THEN "SecurityResult"
                                                             ELSE "ClientInitialisation"])

negotiateNone ==
    /\ Negotiate(sec.None)
    /\ Unread /\ Quiet
    /\ Return(TRUE, [rfb EXCEPT !.init = IF rfb.version >= 38 THEN "SecurityResult"
                                                            ELSE "ClientInitialisation"])

\* A handler whose last message to the server has been sent.
Answered == Send(<<F("response", 0)>>) /\ Return(TRUE, [rfb EXCEPT !.init = "SecurityResult"])

negotiateXvpAuth ==
    /\ Negotiate(sec.XVP)
    /\ IF Needs({"username", "password", "target"}) THEN Requires({"username", "password", "target"})
       ELSE /\ Send(<<F("xvp", 0)>>) /\ Unread
            /\ Return(TRUE, [rfb EXCEPT !.scheme = sec.VNCAuth])

\* The states of VeNCrypt fall through: each is the handler called again.
negotiateVeNCryptAuth ==
    /\ Negotiate(sec.VeNCrypt)
    /\ \/ /\ rfb.vencrypt = 0
          /\ IF rQwait(0, 1) THEN Waits(0, 0)
             ELSE /\ Shift(<<"vencrypt">>)
                  /\ IF rQ[1].v # 2 THEN Quiet /\ Return(FALSE, fail(rfb))
                     ELSE Send(<<F("vencrypt", 2)>>) /\ Return(TRUE, [rfb EXCEPT !.vencrypt = 1])
       \/ /\ rfb.vencrypt = 1
          /\ IF rQwait(0, 1) THEN Waits(0, 0)
             ELSE /\ Shift(<<"ack">>) /\ Quiet
                  /\ IF rQ[1].v # 0 THEN Return(FALSE, fail(rfb))
                     ELSE Return(TRUE, [rfb EXCEPT !.vencrypt = 2])
       \/ /\ rfb.vencrypt = 2
          /\ IF rQwait(0, 1) THEN Waits(0, 0)
             ELSE /\ Shift(<<"subtypes">>) /\ Quiet
                  /\ IF rQ[1].v < 1 THEN Return(FALSE, fail(rfb))
                     ELSE Return(TRUE, [rfb EXCEPT !.subtypes = rQ[1].v, !.vencrypt = 3])
       \/ /\ rfb.vencrypt = 3
          /\ LET n == rfb.subtypes
                 t == Choice(SubSeq(rQ, 1, n), clientTypes \ {sec.VeNCrypt})
             IN  IF rQwait(0, n) THEN Waits(0, 0)
                 ELSE /\ Shift([k \in 1..n |-> "subtype"])
                      /\ IF t = 0 THEN Quiet /\ Return(FALSE, fail(rfb))
                         ELSE /\ Send(<<F("type", t)>>)
                              /\ Return(TRUE, [rfb EXCEPT !.scheme = t, !.vencrypt = 4])

\* Plain, and the Unix login of Tight: credentials, and nothing to read.
negotiatePlainAuth ==
    /\ \/ Negotiate(sec.Plain)
       \/ Negotiate(sec.UnixLogon)
    /\ IF Needs({"username", "password"}) THEN Requires({"username", "password"})
       ELSE Unread /\ Answered

negotiateStdVNCAuth ==
    /\ Negotiate(sec.VNCAuth)
    /\ IF rQwait(0, 1) THEN Waits(0, 0)
       ELSE IF Needs({"password"}) THEN Requires({"password"})
       ELSE Shift(<<"challenge">>) /\ Answered

\* The answer to Apple's key is computed by asynchronous calls; the handler
\* runs again when it is there.
negotiateARDAuth ==
    /\ Negotiate(sec.ARD)
    /\ IF Needs({"username", "password"}) THEN Requires({"username", "password"})
       ELSE IF rfb.ard = "ready" THEN Unread /\ Answered
       ELSE IF rQwait(0, 1) THEN Waits(0, 0)
       ELSE IF rQwait(1, 1) THEN Waits(1, 1)
       ELSE /\ Shift(<<"dh", "keys">>) /\ Quiet
            /\ Return(FALSE, [rfb EXCEPT !.ard = "computing"])

negotiateARDAuthAsync ==
    /\ running = "no" /\ rfb.ard = "computing"
    /\ rfb' = [rfb EXCEPT !.ard = "ready", !.resume = TRUE]
    /\ UNCHANGED <<net, rQ, up, srv, running, misread>>

negotiateMSLogonIIAuth ==
    /\ Negotiate(sec.MSLogonII)
    /\ IF rQwait(0, 1) THEN Waits(0, 0)
       ELSE IF Needs({"username", "password"}) THEN Requires({"username", "password"})
       ELSE Shift(<<"params">>) /\ Answered

\* First pass.  Tunnel 0 is NOTUNNEL and 1 that of a Siemens panel, which
\* forgets to announce NOTUNNEL; without tunnels the second pass follows.
negotiateTightTunnels ==
    /\ Negotiate(sec.Tight) /\ ~rfb.tight
    /\ IF rQwait(0, 1) THEN Waits(0, 0)
       ELSE LET n == rQ[1].v IN
            IF n > 0 /\ rQwait(1, n) THEN Waits(1, 1)
            ELSE /\ Shift(<<"tunnels">> \o [k \in 1..n |-> "tunnel"])
                 /\ IF n = 0 THEN Quiet /\ Return(TRUE, [rfb EXCEPT !.tight = TRUE])
                    ELSE IF rQ[2].v \in {0, 1}
                    THEN Send(<<F("tunnel", 0)>>) /\ Return(FALSE, [rfb EXCEPT !.tight = TRUE])
                    ELSE Quiet /\ Return(FALSE, fail([rfb EXCEPT !.tight = TRUE]))

negotiateTightAuth ==
    /\ Negotiate(sec.Tight) /\ rfb.tight
    /\ IF rQwait(0, 1) THEN Waits(0, 0)
       ELSE LET n == rQ[1].v IN
            IF rQwait(1, n) THEN Waits(1, 1)
            ELSE /\ Shift(<<"auths">> \o [k \in 1..n |-> "auth"])
                 /\ IF n = 0 THEN Quiet /\ Return(TRUE, [rfb EXCEPT !.init = "SecurityResult"])
                    ELSE LET a == rQ[2].v IN
                         IF a \notin {1, sec.VNCAuth, sec.UnixLogon} THEN Quiet /\ Return(FALSE, fail(rfb))
                         ELSE /\ Send(<<F("auth", a)>>)
                              /\ Return(TRUE, IF a = 1 THEN [rfb EXCEPT !.init = "SecurityResult"]
                                                      ELSE [rfb EXCEPT !.scheme = a])

\* A server of version 3.3 chose a type that the client does not know.
negotiateUnsupported ==
    /\ InitMsg("Authentication") /\ rfb.scheme \notin clientTypes \cup {sec.UnixLogon}
    /\ Unread /\ Quiet
    /\ Return(FALSE, fail(rfb))

handleSecurityResult ==
    /\ InitMsg("SecurityResult")
    /\ IF rQwait(0, 1) THEN Waits(0, 0)
       ELSE /\ Shift(<<"result">>) /\ Quiet
            /\ IF rQ[1].v = 0 THEN Return(TRUE, [rfb EXCEPT !.init = "ClientInitialisation"])
               ELSE IF rfb.version >= 38 THEN Return(TRUE, [rfb EXCEPT !.init = "SecurityReason"])
               ELSE Return(FALSE, fail(rfb))

------------------------------------------------------------------------------
(* Initialisation.                                                         *)

clientInitialisation ==
    /\ InitMsg("ClientInitialisation")
    /\ Send(<<F("init", 0)>>) /\ Unread
    /\ Return(TRUE, [rfb EXCEPT !.init = "ServerInitialisation"])

\* What the client knows of the handshake is not read again.
Connected == [rfb EXCEPT !.st = "connected", !.version = 0, !.scheme = 0, !.vencrypt = 0,
                         !.subtypes = 0, !.tight = FALSE, !.creds = {}, !.ard = "no"]

\* Every wait puts back all that was read of the message.  At its end the
\* encodings and the request for the first full update are sent.
negotiateServerInit ==
    /\ InitMsg("ServerInitialisation")
    /\ IF rQwait(0, 1) THEN Waits(0, 0)
       ELSE IF rQwait(1, 1) THEN Waits(1, 1)
       ELSE IF rfb.tight /\ rQwait(2, 1) THEN Waits(2, 2)
       ELSE IF rfb.tight /\ rQwait(3, rQ[3].v) THEN Waits(3, 3)
       ELSE /\ Shift(<<"server", "name">>
                     \o IF rfb.tight THEN <<"extended">> \o [k \in 1..rQ[3].v |-> "caps"] ELSE <<>>)
            /\ Send(<<F("request", 0)>>)
            /\ Return(TRUE, Connected)

initMsg ==
    \/ negotiateProtocolVersion \/ negotiateSecurity \/ handleSecurityReason
    \/ negotiateNone \/ negotiateXvpAuth \/ negotiateVeNCryptAuth \/ negotiatePlainAuth
    \/ negotiateStdVNCAuth \/ negotiateARDAuth \/ negotiateMSLogonIIAuth
    \/ negotiateTightTunnels \/ negotiateTightAuth \/ negotiateUnsupported
    \/ handleSecurityResult
    \/ clientInitialisation \/ negotiateServerInit

\* The page answers what it was asked; a timer then calls _initMsg once.
sendCredentials ==
    /\ running = "no" /\ rfb.asked # {}
    /\ rfb' = [rfb EXCEPT !.creds = rfb.asked, !.asked = {}, !.resume = TRUE]
    /\ UNCHANGED <<net, rQ, up, srv, running, misread>>

resumeAuthentication ==
    /\ running = "no" /\ rfb.resume
    /\ rfb' = [rfb EXCEPT !.resume = FALSE]
    /\ running' = "once"
    /\ UNCHANGED <<net, rQ, up, srv, misread>>

\* What happens without the page: server, network, timers and the client's turns.
HandshakeSteps ==
    \/ ServerGreets \/ ServerReads \/ Deliver
    \/ initMsg
    \/ negotiateARDAuthAsync \/ resumeAuthentication

------------------------------------------------------------------------------
(* Properties.                                                             *)

\* The client takes every field of the stream for what it is, however the
\* stream is cut into deliveries: what a handler shifted before it had to
\* wait is put back, or its progress is remembered (rQwait with goback).
InStep == ~misread

\* The handshake does not hang on fields that are there: it ends, with a
\* connection or a failure, or it waits for the page to give credentials.
Settles == <>[](rfb.st # "connecting" \/ rfb.asked # {})
==============================================================================
