----------------------------- MODULE MCCParser -----------------------------
(* A small instance of CParser for TLC: all files of up to FewTokens       *)
(* tokens, and all files of up to FewPieces pieces that are often found    *)
(* next to each other, which nest blocks and repeat names and options.     *)
EXTENDS CParser, TLC

CONSTANTS o1, o2, w1, h1, octets, FewTokens, FewPieces

UpTo(S, n) == UNION {[1..k -> S] : k \in 0..n}

Pieces == {<<Option(o1), Word(h1)>>, <<Option(o2)>>, <<Word(w1), Begin>>, <<Word(h1), Begin>>, <<End>>}

Joined(pieces) ==
    LET file[n \in 0..Len(pieces)] == IF n = 0 THEN <<>> ELSE file[n - 1] \o pieces[n]
    IN file[Len(pieces)]

FilesMC == UpTo(Tokens, FewTokens) \cup {Joined(p) : p \in UpTo(Pieces, FewPieces)}
OctetsMC == h1 :> octets
=============================================================================
