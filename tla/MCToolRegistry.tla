--------------------------- MODULE MCToolRegistry ---------------------------
(* Inputs for ToolRegistry: one that passes every check, one without the    *)
(* confirmation, server definitions at the borders of the private networks  *)
(* and at IPv6 addresses, descriptions with and without a secret, and none; *)
(* a server as the upstream has it.                                         *)
EXTENDS ToolRegistry

Listed == Host("hub.example")
Hosts == {Listed, Ipv4(172, 32), Bracketed(Ipv6("fd"))}

At(protocol, host) == [command |-> FALSE, leaves |-> {UrlLeaf(<<"url">>, Url(protocol, host))}]
Plain == At("https:", Listed)
Command == [Plain EXCEPT !.command = TRUE]
Nested == [Plain EXCEPT !.leaves = @ \cup {UrlLeaf(<<"url", "primary">>, Url("http:", Ipv4(172, 16)))}]
NoUrl == [Plain EXCEPT !.leaves = {Leaf(<<"url">>, {"words"})}]

Confirmed == [confirm |-> TRUE, expected |-> TRUE, bodies |-> {Plain}, description |-> {"words"}]

\* the tools that look at the confirmation, at the definitions and at the description
\* are not the same, so an input may be refused by one of each
SomeInputs ==
    {Confirmed,
     [Confirmed EXCEPT !.confirm = FALSE, !.bodies = {Command}],
     [Confirmed EXCEPT !.expected = FALSE, !.bodies = {Plain, NoUrl}],
     [Confirmed EXCEPT !.bodies = {Plain, At("https:", Ipv4(172, 31))},
                       !.description = {"words", "sk-key"}],
     [Confirmed EXCEPT !.bodies = {Plain, At("https:", Ipv4(172, 32))},
                       !.description = {"words", "501 characters"}],
     [Confirmed EXCEPT !.bodies = {At("https:", Ipv6("fd"))}, !.description = {"sk-key"}],
     [Confirmed EXCEPT !.bodies = {Plain, At("http:", LOCALHOST)}, !.description = {}],
     [Confirmed EXCEPT !.bodies = {Nested}, !.description = {}]}

AServer ==
    {Leaf(<<"name">>, {"words"}), Leaf(<<"env", "key">>, {"words"}),
     Leaf(<<"config", "headers", "authorization">>, {"bearer"}), Leaf(<<"logs">>, {"words", "jwt"})}
=============================================================================
