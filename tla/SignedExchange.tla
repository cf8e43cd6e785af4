--------------------------- MODULE SignedExchange ---------------------------
(***************************************************************************)
(* One request and its reply through the codec: a caller builds a request, *)
(* protocol.Client completes and marshals it, the server unmarshals it,    *)
(* its handler composes a reply, the server marshals it and the client     *)
(* verifies it.  On the way a datagram may be padded or altered, and what  *)
(* arrives may be a reply to an earlier request with the Identifier, under *)
(* another Request Authenticator or, where it need not be fresh, the same. *)
(***************************************************************************)
EXTENDS PacketCodec

CONSTANTS
    Secrets,            \* the pairs <<client's secret, server's secret>>
    Identifiers,        \* what the Identifier pool gives out
    Codes,              \* the codes in use, an unassigned one among them
    Passwords, Given,   \* the attributes callers put in a request
    GivenLists,         \* the lists they replace a request's attributes with
    Replied,            \* the attributes handlers put in a reply
    CoADefault,         \* WithMessageAuthenticatorRequired
    MaxCalls            \* bound: builder calls, and edits of a reply

\* Marshal writes 16 octets of Message-Authenticator wherever it finds one;
\* a shorter Value is not modelled.
ASSUME MessageAuthenticatorsAreFull ==
    \A a \in Given \cup Replied : a.type = MessageAuthenticator => a.size >= 16

\* What callers and handlers put in a packet are attributes.
IsAttribute(a) == a = Attribute(a.type, a.size, a.head, a.tail)
ASSUME AttributesAreAttributes ==
    /\ \A a \in Passwords \cup Given \cup Replied : IsAttribute(a)
    /\ \A list \in GivenLists :
          list \in Seq({list[i] : i \in DOMAIN list}) /\ \A i \in DOMAIN list : IsAttribute(list[i])

VARIABLES
    phase,      \* "build", "request", "handler", "reply", "done"
    secrets,    \* client.secret and server's secret for this client
    req,        \* the request struct under construction
    calls,      \* builder calls made, then edits made
    asked,      \* the packet the client marshalled
    sent,       \* the datagram it sent
    data,       \* the datagram in flight, as it arrives
    harm,       \* what happened on each way
    got,        \* the packet the server unmarshalled
    draft,      \* the handler's reply
    answered,   \* the datagram the server sent
    result

vars == <<phase, secrets, req, calls, asked, sent, data, harm, got, draft, answered, result>>

FromServer == <<got, draft, answered>>

NoPacket == [code |-> "none", id |-> 0, auth |-> NoOctets, attrs |-> <<>>]
NoDatagram == Datagram("none", 0, NoOctets, <<>>)
Noise == Octets("noise")
ZeroMA == Attribute(MessageAuthenticator, 16, Zeros, NoOctets)

Init ==
    /\ phase = "build"
    /\ secrets \in {[client |-> s[1], server |-> s[2]] : s \in Secrets}
    /\ req \in [code : RequestCodes \cap Codes, eap : {FALSE}, ma : {"default"},
                auth : {Zeros}, attrs : {<<>>}]
    /\ calls = 0
    /\ harm = [request |-> "none", reply |-> "none"]
    /\ asked = NoPacket /\ got = NoPacket /\ draft = NoPacket
    /\ sent = NoDatagram /\ data = NoDatagram /\ answered = NoDatagram
    /\ result = "none"

-----------------------------------------------------------------------------
\* The builders of protocol/builder.go.
Build(change) ==
    /\ phase = "build" /\ calls < MaxCalls
    /\ calls' = calls + 1
    /\ req' = change
    /\ UNCHANGED <<phase, secrets, asked, sent, data, harm, result, FromServer>>

PAP ==
    /\ req.code = "Access-Request"
    /\ \E password \in Passwords :
          Build([req EXCEPT !.eap = FALSE,
                            !.attrs = @ \o <<Attribute(UserName, 16, Octets("user"), NoOctets),
                                             password>>])
EAP ==
    /\ req.code = "Access-Request"
    /\ Build([req EXCEPT !.eap = TRUE])
Authenticator ==
    /\ req.code = "Access-Request"
    /\ Build([req EXCEPT !.auth = Octets("supplied")])
Attr == \E a \in Given : Build([req EXCEPT !.attrs = Append(@, a)])
Attrs == \E list \in GivenLists : Build([req EXCEPT !.attrs = list])
OverrideMA ==
    /\ req.code \in DynamicCodes
    /\ \E ma \in {"force", "omit"} : Build([req EXCEPT !.ma = ma])

\* The attributes the client marshals: a Message-Authenticator is put first
\* when EAP or the policy wants one and the caller did not provide it.
Completed ==
    LET policy == req.ma = "force" \/ (req.ma = "default" /\ CoADefault)
        wanted == req.eap \/ (req.code \in DynamicCodes /\ policy)
    IN  IF wanted /\ ~HasMessageAuthenticator(req.attrs)
        THEN <<ZeroMA>> \o req.attrs ELSE req.attrs

\* An Access-Request without a supplied Authenticator gets a random one.
RequestAuth ==
    IF req.code = "Access-Request" /\ req.auth = Zeros THEN Octets("random") ELSE req.auth

\* Authenticate, Account, SendCoA and SendDisconnect up to the exchange.
Send(id) ==
    LET p == [code |-> req.code, id |-> id, auth |-> RequestAuth, attrs |-> Completed]
    IN  /\ phase = "build"
        /\ asked' = p
        /\ IF MarshalFails(p, secrets.client)
           THEN /\ phase' = "done" /\ result' = "refused"
                /\ UNCHANGED <<sent, data>>
           ELSE /\ phase' = "request"
                /\ sent' = Marshal(p, secrets.client)
                /\ data' = sent'
                /\ UNCHANGED result
        /\ UNCHANGED <<secrets, req, calls, harm, FromServer>>

-----------------------------------------------------------------------------
\* The network.  One thing happens to a datagram at most.
Happens(kind, d) ==
    /\ phase \in {"request", "reply"}
    /\ harm[phase] = "none"
    /\ harm' = [harm EXCEPT ![phase] = kind]
    /\ data' = d
    /\ UNCHANGED <<phase, secrets, req, calls, asked, sent, result, FromServer>>

Pad == Happens("padded", [data EXCEPT !.pad = Noise])
Altered(d) ==
    {[d EXCEPT !.code = c] : c \in Codes \ {d.code}}
    \cup {[d EXCEPT !.id = i] : i \in Identifiers \ {d.id}}
    \cup {[d EXCEPT !.auth = Noise]}
    \cup {[d EXCEPT !.attrs[i].head = Noise] : i \in DOMAIN d.attrs}
    \cup {[d EXCEPT !.attrs[i].type = UserName] : i \in DOMAIN d.attrs}
    \cup {[d EXCEPT !.framing = f] : f \in {"short", "cut", "below 20"}}
Alter == \E d \in Altered(data) \ {data} : Happens("altered", d)

\* An earlier request with the Identifier may have had the Request
\* Authenticator of this one: an equal request of a digested code has, and so
\* has any Access-Request for which the caller supplied the same.
Repeatable == asked.code \in DigestedCodes \/ asked.auth = Octets("supplied")
EarlierAuths == {Octets("earlier")} \cup (IF Repeatable THEN {sent.auth} ELSE {})
EarlierReplies ==
    {p \in [code : Codes, id : {asked.id}, auth : EarlierAuths,
            attrs : {<<>>} \cup {<<a>> : a \in Replied}] : ~MarshalFails(p, secrets.server)}
\* An earlier reply arrives first, and the attempt ends with it.
Stale ==
    /\ phase = "request" /\ phase' = "reply"
    /\ harm' = [harm EXCEPT !.reply = "earlier"]
    /\ \E p \in EarlierReplies : data' = Marshal(p, secrets.server)
    /\ UNCHANGED <<secrets, req, calls, asked, sent, result, FromServer>>

-----------------------------------------------------------------------------
\* handleOne, handleConn: a request that does not unmarshal is dropped.
ServerReads ==
    /\ phase = "request"
    /\ IF UnmarshalFails(data, secrets.server)
       THEN /\ phase' = "done" /\ result' = "dropped"
            /\ UNCHANGED got
       ELSE /\ phase' = "handler"
            /\ got' = Unmarshal(data)
            /\ UNCHANGED result
    /\ calls' = 0
    /\ UNCHANGED <<secrets, req, asked, sent, data, harm, draft, answered>>

HandlerSilent ==
    /\ phase = "handler"
    /\ phase' = "done" /\ result' = "silent"
    /\ UNCHANGED <<secrets, req, calls, asked, sent, data, harm, FromServer>>

Compose(p) ==
    /\ phase = "handler"
    /\ draft' = p
    /\ UNCHANGED <<phase, secrets, req, asked, sent, data, harm, got, answered, result>>

\* Request.Reply and ReplyWith, then Packet.Add, Set and Delete on the reply.
Reply(code) ==
    /\ draft = NoPacket /\ calls' = calls
    /\ Compose([code |-> code, id |-> got.id, auth |-> got.auth, attrs |-> <<>>])

Edit ==
    /\ draft # NoPacket
    /\ calls < MaxCalls /\ calls' = calls + 1
    /\ \/ \E a \in Replied :
             \/ Compose([draft EXCEPT !.attrs = Add(@, a)])
             \/ Compose([draft EXCEPT !.attrs = Set(@, a)])
       \/ \E a \in Replied : Compose([draft EXCEPT !.attrs = Delete(@, a.type)])

ServerReplies ==
    /\ phase = "handler" /\ draft # NoPacket
    /\ IF MarshalFails(draft, secrets.server)
       THEN /\ phase' = "done" /\ result' = "unsent"
            /\ UNCHANGED <<answered, data>>
       ELSE /\ phase' = "reply"
            /\ answered' = Marshal(draft, secrets.server)
            /\ data' = answered'
            /\ UNCHANGED result
    /\ UNCHANGED <<secrets, req, calls, asked, sent, harm, got, draft>>

-----------------------------------------------------------------------------
Expected(code) ==
    CASE code = "Access-Request" -> {"Access-Accept", "Access-Reject", "Access-Challenge"}
      [] code = "Accounting-Request" -> {"Accounting-Response"}
      [] code = "CoA-Request" -> {"CoA-ACK", "CoA-NAK"}
      [] code = "Disconnect-Request" -> {"Disconnect-ACK", "Disconnect-NAK"}

\* exchangeWithRetransmit verifies the reply against the Identifier and the
\* Request Authenticator of what was sent; the caller then checks its code.
ClientVerifies ==
    /\ phase = "reply"
    /\ phase' = "done"
    /\ result' = IF ~VerifyResponse(data, asked.id, sent.auth, secrets.client) THEN "rejected"
                 ELSE IF data.code \notin Expected(asked.code) THEN "unexpected"
                 ELSE "accepted"
    /\ UNCHANGED <<secrets, req, calls, asked, sent, data, harm, FromServer>>

Next ==
    \/ PAP \/ EAP \/ Authenticator \/ Attr \/ Attrs \/ OverrideMA
    \/ \E id \in Identifiers : Send(id)
    \/ Pad \/ Alter \/ Stale
    \/ ServerReads \/ HandlerSilent
    \/ \E code \in Codes : Reply(code)
    \/ Edit \/ ServerReplies \/ ClientVerifies

Spec == Init /\ [][Next]_vars

-----------------------------------------------------------------------------
\* What Marshal wrote and the network left alone, or only padded, is what
\* Unmarshal reads when the secrets agree: no request is dropped, except that
\* of a digested code whose Message-Authenticator is longer than 16 octets,
\* which Marshal zeroes and Unmarshal does not (packet.go:360).
LongMessageAuthenticator(attrs) ==
    \E i \in Authenticators(attrs) : attrs[i].size # 16
WhatIsSentIsRead ==
    result = "dropped" =>
        \/ harm.request = "altered"
        \/ secrets.client # secrets.server
        \/ asked.code \in DigestedCodes /\ LongMessageAuthenticator(asked.attrs)

\* What the handler is given, if nothing was altered, is what the caller
\* asked for, attribute by attribute: a password the server can reveal, a
\* Message-Authenticator that verifies unless the datagram was padded.
HandlerSeesTheRequest ==
    got # NoPacket /\ harm.request # "altered" /\ secrets.client = secrets.server =>
        /\ <<got.code, got.id>> = <<asked.code, asked.id>>
        /\ Len(got.attrs) = Len(asked.attrs)
        /\ \A i \in DOMAIN asked.attrs :
              LET a == asked.attrs[i] b == got.attrs[i]
              IN  CASE a.type = MessageAuthenticator ->
                          b = [a EXCEPT !.head = b.head]
                    [] a.type = UserPassword /\ got.code = "Access-Request" ->
                          b.type = a.type /\ Reveals(b, a, got.auth, secrets.server)
                    [] OTHER -> b = a
        /\ HasMessageAuthenticator(got.attrs) /\ harm.request = "none" =>
              MessageVerifies(sent, sent.auth, secrets.server)

\* A request of a digested code reaches a handler only as it was sent, but
\* for the Message-Authenticator's value, which the digest leaves out and
\* the server does not verify (packet.go:235).
DigestedRequestIsIntact ==
    got.code \in DigestedCodes =>
        /\ secrets.client = secrets.server
        /\ <<got.code, got.id, got.auth>> = <<sent.code, sent.id, sent.auth>>
        /\ ZeroMessageAuthenticator(got.attrs) = ZeroMessageAuthenticator(sent.attrs)

\* What arrives is a reply that the server gave to an earlier request with
\* this Identifier and this Request Authenticator.
AnsweredBefore ==
    /\ harm.reply = "earlier"
    /\ \E p \in EarlierReplies :
          p.auth = sent.auth /\ p.code \in ReplyCodes /\ data = Marshal(p, secrets.server)

\* A reply the client accepts is the one the server sent for the Request
\* Authenticator of this very request, whatever happened to the datagrams.
\* Where that Authenticator is not fresh, it may be the reply to an earlier
\* request with it instead: nothing in VerifyResponse (verify.go:51) tells
\* the two apart.
AcceptedReplyIsGenuine ==
    result = "accepted" =>
        /\ secrets.client = secrets.server
        /\ \/ /\ harm.reply \in {"none", "padded"}
              /\ draft.auth = sent.auth
              /\ <<data.code, data.id, data.auth, data.attrs>> =
                    <<answered.code, answered.id, answered.auth, answered.attrs>>
           \/ Repeatable /\ AnsweredBefore

\* The client turns a reply down only for a reason: it was altered, or is an
\* earlier one under another Request Authenticator or of no reply code; a
\* secret or a code is wrong, the request reached the server altered, or
\* padding hides behind a Message-Authenticator.
RejectedForAReason ==
    result = "rejected" =>
        \/ harm.reply = "altered"
        \/ harm.reply = "earlier" /\ ~AnsweredBefore
        \/ harm.reply # "earlier" /\ (harm.request = "altered" \/ draft.code \notin ReplyCodes)
        \/ secrets.client # secrets.server
        \/ harm.reply = "padded" /\ HasMessageAuthenticator(answered.attrs)
=============================================================================
