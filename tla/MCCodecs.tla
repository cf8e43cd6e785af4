------------------------------ MODULE MCCodecs ------------------------------
(* What goes into a packet and comes out again, one codec at a time: focus *)
(* says which one runs.                                                    *)
EXTENDS SignedExchange, ExtendedAttr, HiddenOctets, AttributeLayers,
        RetransmitSchedule, DictionaryCodec, TLC

VARIABLE focus

MCVars == <<focus, vars, extVars, hiddenVars, layerVars, scheduleVars, codecVars>>

-----------------------------------------------------------------------------
\* The exchange.  Attributes of 16 octets, of which three fill a packet that
\* is not accounting and two one that is; one longer Message-Authenticator;
\* one password over the limit of User-Password but not of an attribute.
CONSTANTS i1, i2

MCSymmetry == Permutations({i1, i2})
MCCodes == {"Access-Request", "Access-Accept", "Accounting-Request", "Accounting-Response",
            "CoA-Request", "CoA-NAK", "Status-Server"}

State(x) == Attribute("State", 16, Octets(x), NoOctets)
Long == Attribute(MessageAuthenticator, 17, Octets("x"), Octets("y"))

MCSecrets == {<<"s1", "s1">>, <<"s1", "s2">>, <<"s1", "">>}
MCPasswords == {Attribute(UserPassword, 16, Octets("p"), NoOctets),
                Attribute(UserPassword, 129, Octets("p"), Octets("q"))}
MCGiven == {State("x"), ZeroMA, Long}
MCGivenLists == {<<State("x"), State("x")>>}
MCReplied == {State("x"), ZeroMA}

-----------------------------------------------------------------------------
\* Hidden values.  Four block values, XOR on two bits, and a digest that
\* tells the secret and the block before apart.
MCBlocks == 0..3
MCXor(p, q) ==
    LET bit(x, i) == (x \div i) % 2
    IN  ((bit(p, 1) + bit(q, 1)) % 2) + 2 * ((bit(p, 2) + bit(q, 2)) % 2)
MCDigest(k, x) == (3 * x + k) % 4
MCContents(n) ==
    IF n <= 2 THEN [1..n -> MCBlocks] ELSE {[i \in 1..n |-> (i * b) % 4] : b \in {1, 3}}

\* The schedule of retransmissions.
MCAttempts == {-1, 0, 1, 2, 7}
MCDurations == {-1, 0, 1, 3, 5, 14}
MCJitters == {-1, 0, 10, 50, 150}
MCTimeouts == {-1, 0, 3, 14}
MCDefaultPolicy == [n |-> 3, initial |-> 2, max |-> 5, jitter |-> 10]

\* Values for NewByName.
Value(form, is, size) == [form |-> form, is |-> is, size |-> size]
MCValues ==
    {Value(f, "text", 4) : f \in {"string", "[]byte", "Stringer"}}
    \cup {Value("string", "number", 2), Value("string", "too big", 10),
          Value("uint32", "number", 2), Value("uint", "too big", 10), Value("int", "negative", 2),
          Value("bool", "text", 4), Value("string", "IPv4", 16),
          Value("net.IP", "IPv4", 16), Value("net.IP", "IPv6", 16)}

-----------------------------------------------------------------------------
MCInit ==
    /\ focus \in {"exchange", "extended", "hidden", "layers", "schedule", "dictionary"}
    /\ Init /\ ExtInit /\ HideInit /\ LayerInit /\ ScheduleInit /\ CodecInit
    \* one initial state for each of the codecs that do not run
    /\ focus # "exchange" =>
          req.code = "Access-Request" /\ secrets = [client |-> "s1", server |-> "s1"]
    /\ focus # "hidden" => there = [key |-> 1, seed |-> 0]

MCNext ==
    /\ UNCHANGED focus
    /\ \/ /\ focus = "exchange" /\ Next
          /\ UNCHANGED <<extVars, hiddenVars, layerVars, scheduleVars, codecVars>>
       \/ /\ focus = "extended" /\ ExtNext
          /\ UNCHANGED <<vars, hiddenVars, layerVars, scheduleVars, codecVars>>
       \/ /\ focus = "hidden" /\ HideNext
          /\ UNCHANGED <<vars, extVars, layerVars, scheduleVars, codecVars>>
       \/ /\ focus = "layers" /\ LayerNext
          /\ UNCHANGED <<vars, extVars, hiddenVars, scheduleVars, codecVars>>
       \/ /\ focus = "schedule" /\ ScheduleNext
          /\ UNCHANGED <<vars, extVars, hiddenVars, layerVars, codecVars>>
       \/ /\ focus = "dictionary" /\ CodecNext
          /\ UNCHANGED <<vars, extVars, hiddenVars, layerVars, scheduleVars>>

MCSpec == MCInit /\ [][MCNext]_MCVars
=============================================================================
