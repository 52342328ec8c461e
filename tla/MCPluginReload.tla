--------------------------- MODULE MCPluginReload ---------------------------
(* Small instances of PluginReload for TLC. *)
EXTENDS PluginReload

CONSTANTS p, q, m, n, k, a, b

P(id, module) == [id |-> id, module |-> module]
R(list) == <<[key |-> k, list |-> list]>>
D(list) == <<[key |-> k, list |-> list]>>
F(blocks, routes, peers, dests, sound) ==
    [readable |-> TRUE, plugins |-> blocks, routes |-> routes,
     peers |-> peers, dests |-> dests, sound |-> sound]

(* Two plugins routed, in either order; one of them gone, in blocks and    *)
(* routes, or in blocks only; a module exchanged; other routing errors;    *)
(* a duplicate; no plugins; a file that cannot be read. Peers and routes   *)
(* to them change, too, one by one or together; one file routes to a peer  *)
(* it does not have.                                                       *)
FilesMC ==
    {F(<<P(p, m), P(q, n)>>, R(<<p, q>>), {a}, D(<<a>>), TRUE),
     F(<<P(p, m), P(q, n)>>, R(<<q, p>>), {a, b}, D(<<a, b>>), TRUE),
     F(<<P(q, n)>>, R(<<q>>), {a, b}, D(<<a>>), TRUE),
     F(<<P(q, n)>>, R(<<p, q>>), {a}, D(<<a>>), TRUE),
     F(<<P(p, n)>>, R(<<p>>), {b}, D(<<b>>), TRUE),
     F(<<P(p, n)>>, R(<<p>>), {a}, D(<<b>>), TRUE),
     F(<<P(p, n)>>, R(<<p>>), {a}, D(<<a>>), FALSE),
     F(<<P(p, m), P(p, n)>>, R(<<p>>), {a}, <<>>, TRUE),
     F(<<>>, <<>>, {}, <<>>, TRUE),
     [F(<<>>, <<>>, {}, <<>>, TRUE) EXCEPT !.readable = FALSE]}
=============================================================================
