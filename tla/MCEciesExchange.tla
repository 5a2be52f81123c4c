---------------------------- MODULE MCEciesExchange ----------------------------
EXTENDS EciesExchange, TLC

B(n) == <<"byte", n>>

(* "gus" has an id of another size than the service is configured for. *)
MCId(m) == IF m = "gus" THEN <<<<"id", m>>, <<"id", m>>>> ELSE <<<<"id", m>>>>

MCRecipients == {<<"ann", "bob">>, <<"bob", "gus">>}
MCMessages == {<<>>, <<B(1), B(2)>>}
MCPreambles == {<<>>, <<<<"preamble">>>>}
MCContents == {<<>>, <<B(1), B(2), B(3), B(4)>>, <<B(5), B(6), B(7)>>}
=============================================================================
