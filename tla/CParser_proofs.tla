--------------------------- MODULE CParser_proofs ---------------------------
(***************************************************************************)
(* What the parser makes of a configuration file, whatever the file:       *)
(*                                                                         *)
(*   TypeCorrect           the blocks form a tree with the file as root;   *)
(*   WellFormedIsAccepted  it accepts well-formed texts only, and raises   *)
(*                         an error for no other reason;                   *)
(*   WhatIsWrittenIsRead   then each block has its name, its place and the *)
(*                         options written in it, with the values written; *)
(*   OptionsAreInherited   an option holds in the blocks inside the one it *)
(*                         is given in, unless given again there.          *)
(*                                                                         *)
(* The text is spoken of by what stands at its places, without a parser:   *)
(* Depth, Around, BlockAt, WrittenAt. The invariant, ParserInv, says of    *)
(* every place the parser comes to that the text up to it is Sound, that   *)
(* the blocks Nest as in it, that they have its options as their Contents, *)
(* and that the block and the state of the parser are the ones of this     *)
(* Place. So the calls on the stack, which the model does not keep, need   *)
(* not be spoken of: where load_section returns to is the block around.    *)
(*                                                                         *)
(* The look-ups recurse over the tree and along a path. A recursive        *)
(* function is any that satisfies its equation, once one that does is      *)
(* shown to exist, and what it computes is shown for a least set of        *)
(* numbers (SetInduction).                                                 *)
(***************************************************************************)
EXTENDS CParser, FiniteSetTheorems, SequenceTheorems, WellFoundedInduction, TLAPS

-----------------------------------------------------------------------------
(* Numbers.                                                                *)

(* A set of natural numbers has a least one.                               *)
LEMMA Least ==
    ASSUME NEW S \in SUBSET Nat, S # {}
    PROVE  \E x \in S : \A y \in S : x <= y
<1> DEFINE less == OpToRel(<, Nat)
<1>1. IsWellFoundedOn(less, Nat)
    BY NatLessThanWellFounded
<1>2. \A x, y \in Nat : y < x => <<y, x>> \in less
    BY DEF OpToRel
<1> HIDE DEF less
<1>3. PICK x \in S : \A y \in S : ~(<<y, x>> \in less)
    BY <1>1, WFMin
<1>4. \A y \in S : ~(y < x)
    BY <1>2, <1>3
<1> QED BY <1>3, <1>4

(* Induction, with the property as a set of numbers.                       *)
LEMMA SetInduction ==
    ASSUME NEW S, 0 \in S, \A n \in Nat : n \in S => n + 1 \in S
    PROVE  \A n \in Nat : n \in S
<1> SUFFICES ASSUME NEW m \in Nat, m \notin S PROVE FALSE
    OBVIOUS
<1> DEFINE B == Nat \ S
<1>1. PICK x \in B : \A y \in B : x <= y
    BY Least
<1>2. x # 0 /\ x - 1 \in Nat
    BY <1>1
<1>3. x - 1 \in S
    BY <1>1, <1>2
<1> QED BY <1>1, <1>2, <1>3

(* A set of natural numbers that has a bound has a largest one.            *)
LEMMA LargestIs ==
    ASSUME NEW S \in SUBSET Nat, S # {}, NEW bound \in Nat, \A x \in S : x <= bound
    PROVE  Largest(S) \in S /\ \A y \in S : y <= Largest(S)
<1> DEFINE U == {u \in Nat : \A x \in S : x <= u}
<1>1. PICK u \in U : \A v \in U : u <= v
    <2>1. U \in SUBSET Nat /\ U # {}
        OBVIOUS
    <2> HIDE DEF U
    <2> QED BY <2>1, Least
<1>2. \E x \in S : \A y \in S : y <= x
    <2>1. CASE u \in S
        BY <1>1, <2>1
    <2>2. CASE u \notin S
        <3>1. PICK x \in S : TRUE
            OBVIOUS
        <3>2. u - 1 \in Nat /\ \A y \in S : y <= u - 1
            BY <1>1, <2>2, <3>1
        <3>3. u - 1 \in U
            BY <3>2
        <3> QED BY <1>1, <3>2, <3>3
    <2> QED BY <2>1, <2>2
<1> QED BY <1>2 DEF Largest

(* The least of some numbers.                                              *)
LEMMA SmallestIs ==
    ASSUME NEW S \in SUBSET Nat, S # {}
    PROVE  Smallest(S) \in S /\ \A y \in S : Smallest(S) <= y
BY Least DEF Smallest

-----------------------------------------------------------------------------
(* Types.                                                                  *)

LEMMA TokenTypes ==
    ASSUME NEW t \in Tokens
    PROVE  /\ t.symbol \in {"begin", "end", "option", "word"}
           /\ t.symbol = "word" => t.text \in Words
           /\ t.symbol = "option" => t.text \in Options /\ t = Option(t.text)
           /\ t.symbol = "begin" => t.text = "{"
<1>1. CASE \E o \in Options : t = Option(o)
    BY <1>1 DEF Option
<1>2. CASE \E w \in Words : t = Word(w)
    BY <1>2 DEF Word
<1>3. CASE t = Begin
    BY <1>3 DEF Begin
<1>4. CASE t = End
    BY <1>4 DEF End
<1> QED BY <1>1, <1>2, <1>3, <1>4 DEF Tokens

(* Run counts the words from a token on.                                   *)
LEMMA RunCounts ==
    ASSUME tokens \in Seq(Tokens), NEW i \in 1..(Len(tokens) + 1)
    PROVE  /\ Run(i) \in Nat /\ i + Run(i) <= Len(tokens) + 1
           /\ ~Is(i + Run(i), "word")
           /\ \A k \in i..(i + Run(i) - 1) : Is(k, "word")
<1> DEFINE S == {n \in Nat : ~Is(i + n, "word")}
           Good(n) == /\ ~Is(i + n, "word")
                      /\ \A k \in i..(i + n - 1) : Is(k, "word")
<1>1. Len(tokens) \in Nat /\ i \in Nat /\ DOMAIN tokens = 1..Len(tokens)
    OBVIOUS
<1>2. Len(tokens) + 1 - i \in S
    BY <1>1 DEF Is
<1>3. PICK n \in S : \A m \in S : n <= m
    <2>1. S \in SUBSET Nat /\ S # {}
        BY <1>2
    <2> HIDE DEF S
    <2> QED BY <2>1, Least
<1>4. n \in Nat /\ n <= Len(tokens) + 1 - i
    BY <1>1, <1>2, <1>3
<1>5. Good(n)
    <2>1. ~Is(i + n, "word")
        BY <1>3
    <2>2. ASSUME NEW k \in i..(i + n - 1) PROVE Is(k, "word")
        <3>1. k - i \in Nat /\ k - i < n /\ i + (k - i) = k
            BY <1>1, <1>4, <2>2
        <3>2. ASSUME k - i \in S PROVE FALSE
            <4>1. n <= k - i
                BY <1>3, <3>2
            <4> QED BY <1>4, <3>1, <4>1
        <3> QED BY <3>1, <3>2
    <2> QED BY <2>1, <2>2
<1>6. n \in 0..Len(tokens)
    BY <1>1, <1>4
<1>7. Run(i) \in 0..Len(tokens) /\ Good(Run(i))
    <2>1. Run(i) = CHOOSE m \in 0..Len(tokens) : Good(m)
        BY DEF Run
    <2> HIDE DEF Good
    <2> QED BY <1>5, <1>6, <2>1
<1>8. i + Run(i) <= Len(tokens) + 1
    <2> SUFFICES ASSUME i + Run(i) > Len(tokens) + 1 PROVE FALSE
        BY <1>1, <1>7
    <2>1. Len(tokens) + 1 \in i..(i + Run(i) - 1)
        BY <1>1, <1>7
    <2>2. Is(Len(tokens) + 1, "word")
        BY <1>7, <2>1
    <2> QED BY <1>1, <2>2 DEF Is
<1> QED BY <1>7, <1>8

(* TypeOK in terms of sets of blocks, as the provers need it.              *)
OptionsSet == UNION {[S -> Seq(Values)] : S \in SUBSET Options}
BlockSet == [name : Names, up : Nat, options : OptionsSet]

Rooted(bs) == \A b \in DOMAIN bs : bs[b].up \in 0..(b - 1) /\ (bs[b].up = 0 <=> b = Root)

TypeInv ==
    /\ tokens \in Seq(Tokens)
    /\ index \in 0..Len(tokens)
    /\ blocks \in Seq(BlockSet)
    /\ Rooted(blocks)
    /\ current \in DOMAIN blocks
    /\ state \in {"FSM_START", "FSM_CHILD_END"} \cup Ended

(* The strengthened type invariant gives the one TLC checks.               *)
LEMMA TypeInvIsTypeOK == ASSUME TypeInv PROVE TypeOK
<1>1. ASSUME NEW b \in DOMAIN blocks PROVE Block(blocks[b])
    <2>1. blocks[b] \in BlockSet
        BY DEF TypeInv
    <2>2. PICK S \in SUBSET Options : blocks[b].options \in [S -> Seq(Values)]
        BY <2>1 DEF BlockSet, OptionsSet
    <2> QED BY <2>1, <2>2 DEF BlockSet, Block
<1> QED BY <1>1 DEF TypeInv, TypeOK, Rooted

(* What is kept of the words of an option is a sequence of values.         *)
LEMMA ValueType ==
    ASSUME NEW w \in Words
    PROVE  Value(w) \in Values
BY OctetsAssumption DEF Value, Values

(* What ReadOption stores, and where it goes on.                           *)
LEMMA KeptValues ==
    ASSUME tokens \in Seq(Tokens), NEW i \in 1..(Len(tokens) + 1),
           ~(Run(i) = 0 /\ Is(i, "begin"))
    PROVE  /\ Kept(i) \in Nat /\ Kept(i) <= Run(i) /\ i + Kept(i) <= Len(tokens) + 1
           /\ DOMAIN ValuesFrom(i) = 1..Kept(i)
           /\ \A n \in 1..Kept(i) : ValuesFrom(i)[n] = Value(tokens[i + n - 1].text)
           /\ ValuesFrom(i) \in Seq(Values)
<1>1. Run(i) \in Nat /\ i + Run(i) <= Len(tokens) + 1
    BY RunCounts
<1>2. Run(i) = 0 => i + Run(i) = i
    OBVIOUS
<1>3. Kept(i) \in Nat /\ Kept(i) <= Run(i) /\ i + Kept(i) <= Len(tokens) + 1
    BY <1>1, <1>2 DEF Kept
<1>4. ASSUME NEW n \in 1..Kept(i) PROVE Value(tokens[i + n - 1].text) \in Values
    <2>1. i + n - 1 \in i..(i + Run(i) - 1)
        BY <1>1, <1>3
    <2>2. Is(i + n - 1, "word")
        BY <2>1, RunCounts
    <2>3. tokens[i + n - 1] \in Tokens /\ tokens[i + n - 1].symbol = "word"
        BY <2>2 DEF Is
    <2> QED BY <2>3, TokenTypes, ValueType
<1>5. ValuesFrom(i) = [n \in 1..Kept(i) |-> Value(tokens[i + n - 1].text)]
    BY DEF ValuesFrom
<1>6. ValuesFrom(i) \in Seq(Values)
    <2> HIDE DEF Kept
    <2>1. ValuesFrom(i) \in [1..Kept(i) -> Values]
        BY <1>4, <1>5
    <2> QED BY <1>3, <2>1, SeqDef
<1> QED BY <1>3, <1>5, <1>6

(* The parser starts with the block of the file.                           *)
LEMMA TypeInit == ASSUME Init PROVE TypeInv
<1>1. tokens \in Seq(Tokens)
    BY FilesAssumption DEF Init
<1>2. index \in 0..Len(tokens)
    <2>1. Len(tokens) \in Nat
        BY <1>1
    <2>2. index = 0
        BY DEF Init
    <2> QED BY <2>1, <2>2
<1> DEFINE root == [name |-> "", up |-> 0, options |-> NoOptions]
<1>3. NoOptions \in [{} -> Seq(Values)]
    BY DEF NoOptions
<1>4. NoOptions \in OptionsSet
    BY <1>3 DEF OptionsSet
<1>5. root \in BlockSet
    BY <1>4 DEF BlockSet, Names
<1>6. blocks = <<root>>
    BY DEF Init
<1>7. root.up = 0
    OBVIOUS
<1> HIDE DEF root
<1>8. blocks \in Seq(BlockSet) /\ DOMAIN blocks = {1} /\ blocks[1] = root
    BY <1>5, <1>6
<1>9. Rooted(blocks)
    BY <1>7, <1>8 DEF Rooted, Root
<1> QED BY <1>1, <1>2, <1>8, <1>9 DEF TypeInv, Init, Root

(* Blocks are only added, and given options.                               *)
LEMMA GivenType ==
    ASSUME TypeInv, NEW o \in Options, NEW values \in Seq(Values), Given(o, values)
    PROVE  /\ blocks' \in Seq(BlockSet) /\ Rooted(blocks')
           /\ DOMAIN blocks' = DOMAIN blocks
           /\ \A b \in DOMAIN blocks :
                  /\ blocks'[b].name = blocks[b].name
                  /\ blocks'[b].up = blocks[b].up
                  /\ b # current => blocks'[b] = blocks[b]
           /\ DOMAIN blocks'[current].options = DOMAIN blocks[current].options \cup {o}
           /\ \A x \in DOMAIN blocks'[current].options :
                  blocks'[current].options[x] =
                      IF x = o THEN values ELSE blocks[current].options[x]
<1> DEFINE old == blocks[current].options
           new == [x \in DOMAIN old \cup {o} |-> IF x = o THEN values ELSE old[x]]
<1>1. blocks \in Seq(BlockSet) /\ current \in DOMAIN blocks /\ blocks[current] \in BlockSet
    BY DEF TypeInv
<1>2. new \in OptionsSet
    <2>1. PICK S \in SUBSET Options : old \in [S -> Seq(Values)]
        BY <1>1 DEF BlockSet, OptionsSet
    <2>2. new \in [S \cup {o} -> Seq(Values)]
        BY <2>1
    <2>3. S \cup {o} \in SUBSET Options
        BY <2>1
    <2> HIDE DEF new
    <2> QED BY <2>2, <2>3 DEF OptionsSet
<1>3. blocks' = [blocks EXCEPT ![current].options = new]
    BY DEF Given
<1> DEFINE block == [blocks[current] EXCEPT !.options = new]
<1>4. /\ block \in BlockSet
      /\ block.name = blocks[current].name /\ block.up = blocks[current].up
      /\ block.options = new
    <2> HIDE DEF new
    <2> QED BY <1>1, <1>2 DEF BlockSet
<1>5. blocks' = [blocks EXCEPT ![current] = block]
    BY <1>1, <1>3
<1>6. DOMAIN new = DOMAIN old \cup {o} /\ \A x \in DOMAIN new : new[x] = IF x = o THEN values ELSE old[x]
    OBVIOUS
<1> HIDE DEF new, block
<1>7. /\ DOMAIN blocks' = DOMAIN blocks
      /\ blocks'[current] = block
      /\ \A b \in DOMAIN blocks : b # current => blocks'[b] = blocks[b]
    BY <1>1, <1>5
<1>8. blocks' \in Seq(BlockSet)
    BY <1>1, <1>4, <1>5
<1>9. Rooted(blocks')
    BY <1>4, <1>7 DEF Rooted, TypeInv
<1> QED BY <1>4, <1>6, <1>7, <1>8, <1>9

(* A new block is the last.                                                *)
LEMMA AppendBlock ==
    ASSUME TypeInv, NEW b \in BlockSet, b.up \in DOMAIN blocks, blocks' = Append(blocks, b)
    PROVE  /\ blocks' \in Seq(BlockSet) /\ Rooted(blocks')
           /\ Len(blocks) \in Nat /\ Len(blocks) >= 1
           /\ DOMAIN blocks = 1..Len(blocks)
           /\ Len(blocks') = Len(blocks) + 1
           /\ DOMAIN blocks' = 1..(Len(blocks) + 1)
           /\ \A c \in DOMAIN blocks : blocks'[c] = blocks[c]
           /\ blocks'[Len(blocks) + 1] = b
<1>1. blocks \in Seq(BlockSet) /\ Len(blocks) \in Nat /\ DOMAIN blocks = 1..Len(blocks)
    BY DEF TypeInv
<1>2. /\ blocks' \in Seq(BlockSet)
      /\ Len(blocks') = Len(blocks) + 1
      /\ DOMAIN blocks' = 1..(Len(blocks) + 1)
      /\ \A c \in DOMAIN blocks : blocks'[c] = blocks[c]
      /\ blocks'[Len(blocks) + 1] = b
    BY <1>1
<1>3. Len(blocks) >= 1
    BY <1>1 DEF TypeInv
<1>4. Rooted(blocks')
    BY <1>1, <1>2, <1>3 DEF Rooted, TypeInv, Root
<1> QED BY <1>1, <1>2, <1>3, <1>4

(* Returning from a block leaves its fields, and goes to one that exists.  *)
LEMMA ReturnType ==
    ASSUME TypeInv, Return
    PROVE  /\ tokens' = tokens
           /\ current' \in DOMAIN blocks
           /\ state' \in {"parsed", "FSM_CHILD_END"}
<1>1. CASE current = Root
    BY <1>1 DEF Return, TypeInv
<1>2. CASE current # Root
    <2>1. blocks[current].up \in 0..(current - 1) /\ blocks[current].up # 0
        BY <1>2 DEF TypeInv, Rooted
    <2>2. blocks[current].up \in DOMAIN blocks
        <3>1. DOMAIN blocks = 1..Len(blocks) /\ Len(blocks) \in Nat
            BY DEF TypeInv
        <3>2. current \in 1..Len(blocks)
            BY <3>1 DEF TypeInv
        <3> QED BY <2>1, <3>1, <3>2
    <2> QED BY <1>2, <2>2 DEF Return
<1> QED BY <1>1, <1>2

(* The option that is read, and its values.                                *)
LEMMA OptionRead ==
    ASSUME TypeInv, Is(index + 1, "option")
    PROVE  /\ index + 1 \in 1..Len(tokens) /\ index + 2 \in 1..(Len(tokens) + 1)
           /\ tokens[index + 1].text \in Options
           /\ tokens[index + 1] = Option(tokens[index + 1].text)
<1>1. Len(tokens) \in Nat /\ DOMAIN tokens = 1..Len(tokens) /\ index \in 0..Len(tokens)
    BY DEF TypeInv
<1>2. index + 1 \in 1..Len(tokens) /\ tokens[index + 1].symbol = "option"
    BY <1>1 DEF Is
<1>3. tokens[index + 1] \in Tokens
    BY <1>1, <1>2 DEF TypeInv
<1> DEFINE t == tokens[index + 1]
<1>4. t \in Tokens /\ t.symbol = "option"
    BY <1>2, <1>3
<1> HIDE DEF t
<1>5. t.text \in Options /\ t = Option(t.text)
    BY <1>4, TokenTypes
<1> QED BY <1>1, <1>2, <1>5 DEF t

(* No step leaves the types.                                               *)
LEMMA TypeStep == ASSUME TypeInv, [Next]_vars PROVE TypeInv'
<1>0. Len(tokens) \in Nat /\ DOMAIN tokens = 1..Len(tokens) /\ index \in 0..Len(tokens)
    BY DEF TypeInv
<1>1. CASE SectionEnd
    BY <1>1, ReturnType DEF SectionEnd, TypeInv, Ended
<1>2. CASE ChildEnd
    <2>1. CASE Is(index + 1, "end")
        BY <1>0, <1>2, <2>1 DEF ChildEnd, TypeInv, Is, ChildEndRead
    <2>2. CASE ~Is(index + 1, "end")
        BY <1>2, <2>2 DEF ChildEnd, TypeInv, Raise, Ended
    <2> QED BY <2>1, <2>2
<1>3. CASE Section
    <2>1. CASE Is(index + 2, "begin")
        <3> DEFINE b == [name |-> tokens[index + 1].text, up |-> current, options |-> NoOptions]
        <3>1. index + 2 \in 0..Len(tokens) /\ index + 1 \in DOMAIN tokens
            BY <1>0, <2>1 DEF Is
        <3>2. tokens[index + 1] \in Tokens
            BY <3>1 DEF TypeInv
        <3>3. tokens[index + 1].symbol \in {"word", "begin"}
            BY <1>3 DEF Section, Is
        <3>4. tokens[index + 1].text \in Names
            BY <3>2, <3>3, TokenTypes DEF Names
        <3>5. NoOptions \in OptionsSet
            <4>1. NoOptions \in [{} -> Seq(Values)]
                BY DEF NoOptions
            <4> QED BY <4>1 DEF OptionsSet
        <3>6. current \in DOMAIN blocks /\ current \in Nat
            BY DEF TypeInv
        <3>7. b \in BlockSet /\ b.up = current
            BY <3>4, <3>5, <3>6 DEF BlockSet
        <3>8. /\ blocks' = Append(blocks, b) /\ current' = Len(blocks) + 1 /\ index' = index + 2
              /\ UNCHANGED <<tokens, state>>
            BY <1>3, <2>1 DEF Section
        <3> HIDE DEF b
        <3> QED BY <3>1, <3>6, <3>7, <3>8, AppendBlock DEF TypeInv
    <2>2. CASE ~Is(index + 2, "begin")
        BY <1>3, <2>2 DEF Section, TypeInv, Raise, Ended
    <2> QED BY <2>1, <2>2
<1>4. CASE ReadOption
    <2> DEFINE o == tokens[index + 1].text
               first == index + 2
               next == first + Run(first)
    <2>1. Is(index + 1, "option")
        BY <1>4 DEF ReadOption
    <2>2. /\ index + 1 \in 1..Len(tokens) /\ first \in 1..(Len(tokens) + 1) /\ o \in Options
        BY <2>1, OptionRead
    <2>3. \/ Raise("SnmpfwdError")
          \/ Raise("IndexError")
          \/ /\ ~(next = first /\ Is(next, "begin"))
             /\ Given(o, ValuesFrom(first))
             /\ index' = index + 1 + Kept(first)
             /\ Return \/ UNCHANGED <<tokens, current, state>>
        BY <1>4 DEF ReadOption
    <2>4. CASE Raise("SnmpfwdError") \/ Raise("IndexError")
        BY <2>4 DEF TypeInv, Raise, Ended
    <2>5. CASE /\ ~(next = first /\ Is(next, "begin"))
               /\ Given(o, ValuesFrom(first))
               /\ index' = index + 1 + Kept(first)
               /\ Return \/ UNCHANGED <<tokens, current, state>>
        <3>1. Run(first) = 0 => next = first
            BY <2>2
        <3>2. ~(Run(first) = 0 /\ Is(first, "begin"))
            BY <2>5, <3>1
        <3>3. tokens \in Seq(Tokens)
            BY DEF TypeInv
        <3>4. /\ Kept(first) \in Nat /\ first + Kept(first) <= Len(tokens) + 1
              /\ ValuesFrom(first) \in Seq(Values)
            BY <2>2, <3>2, <3>3, KeptValues
        <3>5. index' \in 0..Len(tokens)
            BY <1>0, <2>5, <3>4
        <3>6. /\ blocks' \in Seq(BlockSet) /\ Rooted(blocks')
              /\ DOMAIN blocks' = DOMAIN blocks
            BY <2>2, <2>5, <3>4, GivenType
        <3>7. CASE Return
            BY <3>5, <3>6, <3>7, ReturnType DEF TypeInv, Ended
        <3>8. CASE UNCHANGED <<tokens, current, state>>
            BY <3>5, <3>6, <3>8 DEF TypeInv
        <3> QED BY <2>5, <3>7, <3>8
    <2> QED BY <2>3, <2>4, <2>5
<1>5. CASE UNCHANGED vars
    BY <1>5 DEF TypeInv, vars
<1> QED BY <1>1, <1>2, <1>3, <1>4, <1>5 DEF Next

(* The index never passes the text and stays at a block that exists, and   *)
(* blocks are nested in ones that came before.                             *)
THEOREM TypeCorrect == Spec => []TypeOK
<1>1. Init => TypeInv
    BY TypeInit
<1>2. TypeInv /\ [Next]_vars => TypeInv'
    BY TypeStep
<1>3. TypeInv => TypeOK
    BY TypeInvIsTypeOK
<1> QED BY <1>1, <1>2, <1>3, PTL DEF Spec

-----------------------------------------------------------------------------
(* The text: counts, depths, and the block around a token.                 *)

(* Where a symbol stands.                                                  *)
Spots(symbol, i) == {k \in 1..i : Is(k, symbol)}

(* Count counts the places of a symbol.                                    *)
LEMMA SpotsFinite ==
    ASSUME NEW symbol, NEW i \in Nat
    PROVE  /\ IsFiniteSet(Spots(symbol, i)) /\ Cardinality(Spots(symbol, i)) \in Nat
           /\ Count(symbol, i) = Cardinality(Spots(symbol, i))
<1>1. IsFiniteSet(1..i)
    BY FS_Interval
<1>2. Spots(symbol, i) \subseteq 1..i
    BY DEF Spots
<1>3. IsFiniteSet(Spots(symbol, i))
    BY <1>1, <1>2, FS_Subset
<1>4. Count(symbol, i) = Cardinality(Spots(symbol, i))
    BY DEF Count, Spots
<1> QED BY <1>3, <1>4, FS_CardinalityType

(* Before the text there is nothing to count.                              *)
LEMMA CountZero == ASSUME NEW symbol PROVE Count(symbol, 0) = 0
<1>1. Spots(symbol, 0) = {}
    BY DEF Spots
<1> QED BY <1>1, SpotsFinite, FS_EmptySet

(* Counting goes up by one where the symbol stands.                        *)
LEMMA CountStep ==
    ASSUME NEW symbol, NEW i \in Nat
    PROVE  /\ Count(symbol, i) \in Nat
           /\ Count(symbol, i + 1) = Count(symbol, i) + (IF Is(i + 1, symbol) THEN 1 ELSE 0)
<1> DEFINE S == Spots(symbol, i)
           T == Spots(symbol, i + 1)
<1>1. IsFiniteSet(S) /\ Cardinality(S) \in Nat /\ Count(symbol, i) = Cardinality(S)
    BY SpotsFinite
<1>2. Count(symbol, i + 1) = Cardinality(T)
    <2>1. i + 1 \in Nat
        OBVIOUS
    <2> QED BY <2>1, SpotsFinite
<1>3. CASE Is(i + 1, symbol)
    <2>1. T = S \cup {i + 1} /\ i + 1 \notin S
        BY <1>3 DEF Spots
    <2> HIDE DEF S, T
    <2>2. Cardinality(T) = Cardinality(S) + 1
        BY <1>1, <2>1, FS_AddElement
    <2> QED BY <1>1, <1>2, <1>3, <2>2
<1>4. CASE ~Is(i + 1, symbol)
    <2>1. T = S
        BY <1>4 DEF Spots
    <2> HIDE DEF S, T
    <2> QED BY <1>1, <1>2, <1>4, <2>1
<1> QED BY <1>3, <1>4

(* A token has one kind.                                                   *)
LEMMA OneKind ==
    ASSUME NEW i, NEW s, NEW t, Is(i, s), Is(i, t)
    PROVE  s = t
BY DEF Is

(* "{" goes one deeper and "}" comes out by one.                           *)
LEMMA DepthStep ==
    ASSUME NEW i \in Nat
    PROVE  /\ Depth(i) \in Int /\ Depth(i + 1) \in Int
           /\ Is(i + 1, "begin") => Depth(i + 1) = Depth(i) + 1
           /\ Is(i + 1, "end") => Depth(i + 1) = Depth(i) - 1
           /\ ~Is(i + 1, "begin") /\ ~Is(i + 1, "end") => Depth(i + 1) = Depth(i)
<1>1. /\ Count("begin", i) \in Nat
      /\ Count("begin", i + 1) = Count("begin", i) + (IF Is(i + 1, "begin") THEN 1 ELSE 0)
    BY CountStep
<1>2. /\ Count("end", i) \in Nat
      /\ Count("end", i + 1) = Count("end", i) + (IF Is(i + 1, "end") THEN 1 ELSE 0)
    BY CountStep
<1>3. ~(Is(i + 1, "begin") /\ Is(i + 1, "end"))
    BY OneKind
<1> QED BY <1>1, <1>2, <1>3 DEF Depth

(* The text starts outside of any block.                                   *)
LEMMA DepthZero == Depth(0) = 0
BY CountZero DEF Depth

(* Where neither a block begins nor one ends, nothing changes.             *)
LEMMA CountFlat ==
    ASSUME NEW symbol, NEW i \in Nat, NEW j \in Nat, i <= j,
           \A k \in (i + 1)..j : ~Is(k, symbol)
    PROVE  Count(symbol, j) = Count(symbol, i)
<1>1. Spots(symbol, j) = Spots(symbol, i)
    BY DEF Spots
<1> QED BY <1>1, SpotsFinite

(* Block numbers go up with the text, and at each "{".                     *)
LEMMA BlockAtGrows ==
    ASSUME NEW i \in Nat, NEW j \in Nat, i <= j
    PROVE  /\ BlockAt(i) \in Nat /\ BlockAt(i) >= 1 /\ BlockAt(j) \in Nat
           /\ BlockAt(i) <= BlockAt(j)
           /\ i < j /\ Is(j, "begin") => BlockAt(i) < BlockAt(j)
<1>1. /\ IsFiniteSet(Spots("begin", i)) /\ IsFiniteSet(Spots("begin", j))
      /\ Cardinality(Spots("begin", i)) \in Nat /\ Cardinality(Spots("begin", j)) \in Nat
      /\ BlockAt(i) = 1 + Cardinality(Spots("begin", i))
      /\ BlockAt(j) = 1 + Cardinality(Spots("begin", j))
    BY SpotsFinite DEF BlockAt
<1>2. Spots("begin", i) \subseteq Spots("begin", j)
    BY DEF Spots
<1>3. Cardinality(Spots("begin", i)) <= Cardinality(Spots("begin", j))
    BY <1>1, <1>2, FS_Subset
<1>4. ASSUME i < j, Is(j, "begin")
      PROVE  Cardinality(Spots("begin", i)) < Cardinality(Spots("begin", j))
    <2>1. j \in Spots("begin", j) /\ j \notin Spots("begin", i)
        BY <1>4 DEF Spots
    <2> QED BY <1>1, <1>2, <1>3, <2>1, FS_Subset
<1> QED BY <1>1, <1>3, <1>4

(* Blocks are numbered in the order in which they begin.                   *)
LEMMA OneBlockEach ==
    ASSUME NEW i \in Nat, NEW j \in Nat, i = 0 \/ Is(i, "begin"), j = 0 \/ Is(j, "begin"),
           BlockAt(i) = BlockAt(j)
    PROVE  i = j
<1>1. ASSUME i < j PROVE FALSE
    BY <1>1, BlockAtGrows
<1>2. ASSUME j < i PROVE FALSE
    BY <1>2, BlockAtGrows
<1> QED BY <1>1, <1>2

(* The block of the file is the first.                                     *)
LEMMA BlockAtZero == BlockAt(0) = 1
BY CountZero DEF BlockAt

(* The blocks that are open before a token.                                *)
OpenAt(i) == {j \in 1..(i - 1) : Is(j, "begin") /\ \A k \in j..(i - 1) : Depth(k) >= Depth(j)}

(* The block around a place is the last that is open there, if one is.     *)
LEMMA AroundIs ==
    ASSUME NEW i \in Nat
    PROVE  /\ OpenAt(i) = {} => Around(i) = 0
           /\ OpenAt(i) # {} =>
                  /\ Around(i) \in OpenAt(i)
                  /\ \A j \in OpenAt(i) : j <= Around(i)
           /\ Around(i) \in Nat
           /\ Around(i) # 0 => Around(i) \in OpenAt(i) /\ Around(i) < i /\ Is(Around(i), "begin")
<1>1. Around(i) = IF OpenAt(i) = {} THEN 0 ELSE Largest(OpenAt(i))
    BY DEF Around, OpenAt
<1>2. /\ OpenAt(i) \in SUBSET Nat
      /\ \A j \in OpenAt(i) : j <= i /\ j < i /\ Is(j, "begin") /\ j # 0
    BY DEF OpenAt
<1>3. OpenAt(i) # {} => Largest(OpenAt(i)) \in OpenAt(i) /\ \A j \in OpenAt(i) : j <= Largest(OpenAt(i))
    <2> DEFINE S == OpenAt(i)
    <2>1. S \in SUBSET Nat /\ \A j \in S : j <= i
        BY <1>2
    <2> HIDE DEF S
    <2>2. S # {} => Largest(S) \in S /\ \A j \in S : j <= Largest(S)
        BY <2>1, LargestIs
    <2> QED BY <2>2 DEF S
<1> QED BY <1>1, <1>2, <1>3

Nested(i) == \A k \in 1..i : Depth(k) >= 0

(* As long as no "}" was surplus, the innermost open block has the depth   *)
(* of what it contains, and at depth 0 no block is open.                   *)
LEMMA AroundDepth ==
    ASSUME NEW i \in Nat, Nested(i)
    PROVE  /\ Depth(i) \in Int /\ Depth(i) >= 0
           /\ Around(i + 1) = 0 => Depth(i) = 0
           /\ Around(i + 1) # 0 => Depth(Around(i + 1)) = Depth(i) /\ Depth(i) > 0
<1>1. \A k \in Nat : Depth(k) \in Int
    BY DepthStep
<1>2. \A k \in 0..i : Depth(k) >= 0
    BY DepthZero DEF Nested
<1>3. ASSUME NEW a \in 0..i, Depth(a) < Depth(i)
      PROVE  \E j \in (a + 1)..i : j \in OpenAt(i + 1) /\ Depth(j) <= Depth(i) /\ Depth(j) > Depth(a)
    <2> DEFINE S == {j \in (a + 1)..i : Depth(j - 1) <= Depth(a)}
    <2>1. a < i
        BY <1>1, <1>3
    <2>2. a + 1 \in S
        BY <2>1, <1>1
    <2>3. S \in SUBSET Nat /\ S # {} /\ \A x \in S : x <= i
        BY <2>2
    <2>4. Largest(S) \in S /\ \A y \in S : y <= Largest(S)
        <3> HIDE DEF S
        <3> QED BY <2>3, LargestIs
    <2> DEFINE j == Largest(S)
    <2>5. j \in (a + 1)..i /\ Depth(j - 1) <= Depth(a)
        BY <2>4
    <2>6. ASSUME NEW k \in j..i PROVE Depth(k) > Depth(a)
        <3>1. CASE k = i
            BY <1>3, <3>1
        <3>2. CASE k < i
            <4>1. k + 1 \in (a + 1)..i /\ k + 1 \notin S
                BY <2>4, <2>5, <3>2
            <4>2. ~(Depth((k + 1) - 1) <= Depth(a))
                BY <4>1
            <4>3. (k + 1) - 1 = k /\ k \in Nat /\ a \in Nat
                BY <2>5
            <4> QED BY <1>1, <4>2, <4>3
        <3> QED BY <3>1, <3>2, <2>5
    <2> HIDE DEF j, S
    <2>7. j - 1 \in Nat /\ (j - 1) + 1 = j /\ j \in Nat /\ a \in Nat
        BY <2>5
    <2>8. Depth(j) > Depth(a)
        BY <2>5, <2>6
    <2>9. /\ Is(j, "begin") => Depth(j) = Depth(j - 1) + 1
          /\ Is(j, "end") => Depth(j) = Depth(j - 1) - 1
          /\ ~Is(j, "begin") /\ ~Is(j, "end") => Depth(j) = Depth(j - 1)
        BY <2>7, DepthStep
    <2>10. Is(j, "begin") /\ Depth(j) <= Depth(a) + 1
        BY <1>1, <2>5, <2>7, <2>8, <2>9
    <2>11. \A k \in j..i : Depth(k) >= Depth(j)
        <3> SUFFICES ASSUME NEW k \in j..i PROVE Depth(k) >= Depth(j)
            OBVIOUS
        <3>1. k \in Nat
            BY <2>7
        <3> QED BY <1>1, <2>6, <2>7, <2>10, <3>1
    <2>12. j \in OpenAt(i + 1)
        <3>1. (i + 1) - 1 = i /\ j \in 1..i
            BY <2>5, <2>7
        <3> QED BY <2>10, <2>11, <3>1 DEF OpenAt
    <2>13. Depth(j) <= Depth(i)
        <3>1. i \in j..i
            BY <2>5, <2>7
        <3> QED BY <2>11, <3>1, <1>1, <2>7
    <2> QED BY <2>5, <2>8, <2>12, <2>13
<1>4. Around(i + 1) = 0 => Depth(i) = 0
    <2> SUFFICES ASSUME Depth(i) # 0 PROVE Around(i + 1) # 0
        OBVIOUS
    <2>1. Depth(0) < Depth(i) /\ 0 \in 0..i
        BY <1>1, <1>2, DepthZero
    <2>2. OpenAt(i + 1) # {}
        BY <1>3, <2>1
    <2>3. i + 1 \in Nat
        OBVIOUS
    <2>4. Around(i + 1) \in OpenAt(i + 1)
        BY <2>2, <2>3, AroundIs
    <2> QED BY <2>4 DEF OpenAt
<1>5. ASSUME Around(i + 1) # 0
      PROVE  Depth(Around(i + 1)) = Depth(i) /\ Depth(i) > 0
    <2> DEFINE a == Around(i + 1)
    <2>1. i + 1 \in Nat
        OBVIOUS
    <2>2. a \in OpenAt(i + 1) /\ \A j \in OpenAt(i + 1) : j <= a
        BY <1>5, <2>1, AroundIs
    <2> HIDE DEF a
    <2>3. a \in 1..i /\ Is(a, "begin") /\ \A k \in a..i : Depth(k) >= Depth(a)
        <3>1. (i + 1) - 1 = i
            OBVIOUS
        <3> QED BY <2>2, <3>1 DEF OpenAt
    <2>4. Depth(i) >= Depth(a)
        BY <2>3
    <2>5. ~(Depth(a) < Depth(i))
        <3> SUFFICES ASSUME Depth(a) < Depth(i) PROVE FALSE
            OBVIOUS
        <3>1. a \in 0..i
            BY <2>3
        <3>2. PICK j \in (a + 1)..i : j \in OpenAt(i + 1)
            BY <1>3, <3>1
        <3>3. j <= a
            BY <2>2, <3>2
        <3> QED BY <2>3, <3>2, <3>3
    <2>6. Depth(a) > 0
        <3>1. a - 1 \in Nat /\ (a - 1) + 1 = a /\ a - 1 \in 0..i /\ a \in Nat
            BY <2>3
        <3>2. Depth(a) = Depth(a - 1) + 1
            BY <2>3, <3>1, DepthStep
        <3> QED BY <1>1, <1>2, <3>1, <3>2
    <2>7. a \in Nat
        BY <2>3
    <2> QED BY <1>1, <2>4, <2>5, <2>6, <2>7 DEF a
<1>6. i \in 0..i
    OBVIOUS
<1> QED BY <1>1, <1>2, <1>4, <1>5, <1>6

(* Nothing is around the first token.                                      *)
LEMMA AroundFirst == Around(1) = 0
<1>1. OpenAt(1) = {}
    BY DEF OpenAt
<1> QED BY <1>1, AroundIs

(* Inside a block that just began, this block is around.                   *)
LEMMA AroundBegin ==
    ASSUME NEW i \in Nat, Is(i, "begin"), i # 0
    PROVE  Around(i + 1) = i
<1>1. i + 1 \in Nat /\ (i + 1) - 1 = i /\ Depth(i) \in Int
    BY DepthStep
<1>2. i \in OpenAt(i + 1)
    BY <1>1 DEF OpenAt
<1>3. \A j \in OpenAt(i + 1) : j <= i /\ j \in Nat
    BY <1>1 DEF OpenAt
<1>4. Around(i + 1) \in OpenAt(i + 1) /\ i <= Around(i + 1)
    BY <1>1, <1>2, AroundIs
<1> QED BY <1>3, <1>4

(* Options and words do not change the block around, the depth, or the     *)
(* number of blocks.                                                       *)
LEMMA Flat ==
    ASSUME NEW i \in Nat, NEW j \in Nat, i <= j,
           \A k \in (i + 1)..j : ~Is(k, "begin") /\ ~Is(k, "end")
    PROVE  /\ BlockAt(j) = BlockAt(i)
           /\ Depth(j) = Depth(i)
           /\ Around(j + 1) = Around(i + 1)
<1>1. \A k \in i..j : Count("begin", k) = Count("begin", i) /\ Count("end", k) = Count("end", i)
    <2> SUFFICES ASSUME NEW k \in i..j
                 PROVE  Count("begin", k) = Count("begin", i) /\ Count("end", k) = Count("end", i)
        OBVIOUS
    <2>1. k \in Nat /\ i <= k /\ \A m \in (i + 1)..k : ~Is(m, "begin") /\ ~Is(m, "end")
        OBVIOUS
    <2> QED BY <2>1, CountFlat
<1>2. \A k \in i..j : Depth(k) = Depth(i)
    BY <1>1 DEF Depth
<1>3. OpenAt(j + 1) = OpenAt(i + 1)
    <2>1. (j + 1) - 1 = j /\ (i + 1) - 1 = i
        OBVIOUS
    <2>2. ASSUME NEW m \in OpenAt(j + 1) PROVE m \in OpenAt(i + 1)
        <3>1. m \in 1..j /\ Is(m, "begin") /\ \A k \in m..j : Depth(k) >= Depth(m)
            BY <2>1, <2>2 DEF OpenAt
        <3>2. m \in 1..i /\ \A k \in m..i : k \in m..j
            BY <3>1
        <3> QED BY <2>1, <3>1, <3>2 DEF OpenAt
    <2>3. ASSUME NEW m \in OpenAt(i + 1) PROVE m \in OpenAt(j + 1)
        <3>1. m \in 1..i /\ Is(m, "begin") /\ \A k \in m..i : Depth(k) >= Depth(m)
            BY <2>1, <2>3 DEF OpenAt
        <3>2. i \in m..i
            BY <3>1
        <3>3. ASSUME NEW k \in m..j PROVE Depth(k) >= Depth(m)
            <4>1. CASE k <= i
                BY <3>1, <4>1
            <4>2. CASE k > i
                BY <1>2, <3>1, <3>2, <4>2
            <4> QED BY <3>1, <4>1, <4>2
        <3> QED BY <2>1, <3>1, <3>3 DEF OpenAt
    <2> QED BY <2>2, <2>3
<1>4. Around(j + 1) = Around(i + 1)
    <2>1. \A n \in Nat : Around(n) = IF OpenAt(n) = {} THEN 0 ELSE Largest(OpenAt(n))
        BY DEF Around, OpenAt
    <2> QED BY <1>3, <2>1
<1>5. j \in i..j
    OBVIOUS
<1> QED BY <1>1, <1>2, <1>4, <1>5 DEF BlockAt

(* After a "}" the block around the one it ends is around.                 *)
LEMMA AroundEnd ==
    ASSUME NEW i \in Nat, Nested(i), Is(i + 1, "end"), Around(i + 1) # 0
    PROVE  Around(i + 2) = Around(Around(i + 1))
<1> DEFINE a == Around(i + 1)
<1>0. i + 1 \in Nat /\ i + 2 \in Nat /\ (i + 1) - 1 = i /\ (i + 2) - 1 = i + 1
    OBVIOUS
<1>1. /\ a \in OpenAt(i + 1) /\ \A j \in OpenAt(i + 1) : j <= a
      /\ Depth(a) = Depth(i)
    BY <1>0, AroundIs, AroundDepth
<1> HIDE DEF a
<1>2. a \in 1..i /\ Is(a, "begin") /\ \A k \in a..i : Depth(k) >= Depth(a)
    BY <1>0, <1>1 DEF OpenAt
<1>3. \A k \in Nat : Depth(k) \in Int
    BY DepthStep
<1>4. Depth(i + 1) = Depth(i) - 1
    BY DepthStep
<1>5. a - 1 \in Nat /\ (a - 1) + 1 = a /\ a \in Nat
    BY <1>2
<1>6. Depth(a) = Depth(a - 1) + 1
    BY <1>2, <1>5, DepthStep
<1>7. ASSUME NEW m \in OpenAt(i + 2) PROVE m \in OpenAt(a)
    <2>1. m \in 1..(i + 1) /\ Is(m, "begin") /\ \A k \in m..(i + 1) : Depth(k) >= Depth(m)
        BY <1>0, <1>7 DEF OpenAt
    <2>2. m # i + 1
        BY <2>1, OneKind
    <2>3. m \in 1..i /\ m \in Nat
        BY <2>1, <2>2
    <2>4. m \in OpenAt(i + 1)
        <3>1. \A k \in m..i : k \in m..(i + 1)
            OBVIOUS
        <3> QED BY <1>0, <2>1, <2>3, <3>1 DEF OpenAt
    <2>5. m <= a
        BY <1>1, <2>4
    <2>6. m # a
        <3>1. Depth(i + 1) >= Depth(m)
            BY <2>1, <2>3
        <3> QED BY <1>1, <1>3, <1>4, <1>0, <1>5, <3>1
    <2>7. m \in 1..(a - 1) /\ \A k \in m..(a - 1) : k \in m..(i + 1)
        BY <1>2, <2>3, <2>5, <2>6
    <2> QED BY <2>1, <2>7 DEF OpenAt
<1>8. ASSUME NEW m \in OpenAt(a) PROVE m \in OpenAt(i + 2)
    <2>1. m \in 1..(a - 1) /\ Is(m, "begin") /\ \A k \in m..(a - 1) : Depth(k) >= Depth(m)
        BY <1>8 DEF OpenAt
    <2>2. m \in Nat /\ a - 1 \in m..(a - 1)
        BY <1>5, <2>1
    <2>3. Depth(a - 1) >= Depth(m)
        BY <2>1, <2>2
    <2>4. ASSUME NEW k \in m..(i + 1) PROVE Depth(k) >= Depth(m)
        <3>0. k \in Nat
            BY <2>2
        <3>1. CASE k \in m..(a - 1)
            BY <2>1, <3>1
        <3>2. CASE k \in a..i
            <4>1. Depth(k) >= Depth(a)
                BY <1>2, <3>2
            <4> QED BY <1>3, <1>5, <1>6, <2>2, <2>3, <3>0, <4>1
        <3>3. CASE k = i + 1
            BY <1>1, <1>3, <1>4, <1>5, <1>6, <2>2, <2>3, <3>3
        <3> QED BY <1>2, <2>1, <3>1, <3>2, <3>3
    <2>5. m \in 1..(i + 1)
        BY <1>2, <2>1
    <2> QED BY <1>0, <2>1, <2>4, <2>5 DEF OpenAt
<1>9. OpenAt(i + 2) = OpenAt(a)
    BY <1>7, <1>8
<1>10. \A n \in Nat : Around(n) = IF OpenAt(n) = {} THEN 0 ELSE Largest(OpenAt(n))
    BY DEF Around, OpenAt
<1>11. Around(i + 2) = Around(a)
    BY <1>0, <1>5, <1>9, <1>10
<1> QED BY <1>11 DEF a

(* The file is read up to its end, or to the first surplus "}".            *)
LEMMA ExtentIs ==
    ASSUME Len(tokens) \in Nat, DOMAIN tokens = 1..Len(tokens)
    PROVE  /\ Extent \in 0..Len(tokens) /\ Nested(Extent)
           /\ \A i \in 0..Len(tokens) : Nested(i) => i <= Extent
           /\ Extent < Len(tokens) => Depth(Extent + 1) < 0
<1> DEFINE S == {i \in DOMAIN tokens : Depth(i) < 0}
<1>0. \A k \in Nat : Depth(k) \in Int
    BY DepthStep
<1>1. Extent = IF S = {} THEN Len(tokens) ELSE Smallest(S) - 1
    BY DEF Extent
<1>2. CASE S = {}
    <2>1. Extent = Len(tokens)
        BY <1>1, <1>2
    <2>2. Nested(Len(tokens))
        BY <1>0, <1>2 DEF Nested
    <2> QED BY <2>1, <2>2
<1>3. CASE S # {}
    <2> DEFINE s == Smallest(S)
    <2>1. s \in S /\ \A y \in S : s <= y
        <3>1. S \in SUBSET Nat
            OBVIOUS
        <3> HIDE DEF S
        <3> QED BY <1>3, <3>1, SmallestIs
    <2>2. Extent = s - 1
        BY <1>1, <1>3
    <2>3. s \in 1..Len(tokens) /\ Depth(s) < 0
        BY <2>1
    <2>4. \A y \in 1..Len(tokens) : Depth(y) < 0 => s <= y
        BY <2>1
    <2> HIDE DEF s, S
    <2>5. Extent \in 0..Len(tokens) /\ Extent + 1 = s
        BY <2>2, <2>3
    <2>6. Nested(Extent)
        <3> SUFFICES ASSUME NEW k \in 1..Extent, ~(Depth(k) >= 0) PROVE FALSE
            BY DEF Nested
        <3>1. k \in Nat /\ k \in 1..Len(tokens) /\ k < s
            BY <2>5
        <3> QED BY <1>0, <2>3, <2>4, <3>1
    <2>7. ASSUME NEW i \in 0..Len(tokens), Nested(i) PROVE i <= Extent
        <3> SUFFICES ASSUME i > Extent PROVE FALSE
            BY <2>5
        <3>1. s \in 1..i /\ s \in Nat
            BY <2>3, <2>5
        <3>2. Depth(s) >= 0
            BY <2>7, <3>1 DEF Nested
        <3> QED BY <1>0, <2>3, <3>1, <3>2
    <2> QED BY <2>3, <2>5, <2>6, <2>7
<1> QED BY <1>2, <1>3

(* A "{" or "}" after it tells the extent from a place before.             *)
LEMMA ExtentFrom ==
    ASSUME tokens \in Seq(Tokens), NEW i \in 0..Len(tokens), Nested(i),
           AtEof(i + 1) \/ (Is(i + 1, "end") /\ Depth(i) = 0)
    PROVE  Extent = i
<1> DEFINE n == Len(tokens)
           e == Extent
<1>1. n \in Nat /\ DOMAIN tokens = 1..n /\ i \in 0..n /\ i \in Nat
    OBVIOUS
<1>2. e \in 0..n /\ Nested(e) /\ i <= e
    BY <1>1, ExtentIs
<1>3. CASE AtEof(i + 1)
    <2>1. i + 1 > n
        BY <1>3 DEF AtEof
    <2> HIDE DEF n, e
    <2>2. e = i
        BY <1>1, <1>2, <2>1
    <2> QED BY <2>2 DEF e
<1>4. CASE Is(i + 1, "end") /\ Depth(i) = 0
    <2>1. Depth(i + 1) = -1
        BY <1>1, <1>4, DepthStep
    <2> HIDE DEF n, e
    <2>2. i + 1 \notin 1..e
        BY <1>2, <2>1 DEF Nested
    <2>3. e = i
        BY <1>1, <1>2, <2>2
    <2> QED BY <2>3 DEF e
<1> QED BY <1>3, <1>4

-----------------------------------------------------------------------------
(* What has been read is what the text says.                               *)

(* The text up to i is as WellFormed says.                                 *)
Sound(i) ==
    \A k \in 1..i :
        /\ Depth(k) >= 0
        /\ Is(k, "begin") => Is(k - 1, "word")
        /\ Is(k, "word") => OptionOf(k) # {} \/ (Is(k + 1, "begin") /\ ~Is(k - 1, "word"))
        /\ Is(k, "option") =>
               \A m \in 1..i : Is(m, "option") /\ Around(m) = Around(k) /\ tokens[m] = tokens[k]
                                   => m = k

(* There is a block for each "{" so far.                                   *)
Nests(i, bs) ==
    /\ Len(bs) = BlockAt(i)
    /\ \A k \in 1..i : Is(k, "begin") =>
           /\ bs[BlockAt(k)].name = tokens[k - 1].text
           /\ bs[BlockAt(k)].up = BlockAt(Around(k))

(* The options read in the block that begins at b, and the values written  *)
(* of one.                                                                 *)
OptionsTo(i, b) == {k \in 1..i : Is(k, "option") /\ Around(k) = b}
ValuesOf(k) == [n \in 1..Cardinality(WrittenAt(k)) |-> Value(tokens[k + n].text)]

(* Each block has the options written in it so far.                        *)
Contents(i, bs) ==
    \A b \in 0..i : b = 0 \/ Is(b, "begin") =>
        /\ DOMAIN bs[BlockAt(b)].options = {tokens[k].text : k \in OptionsTo(i, b)}
        /\ \A k \in OptionsTo(i, b) : bs[BlockAt(b)].options[tokens[k].text] = ValuesOf(k)

(* The block that is read is the one around the next token, or, when the   *)
(* "}" of that one comes, the one around it; parse() ends as it should.    *)
Place(i, c, st) ==
    /\ st = "FSM_START" =>
           /\ c = BlockAt(Around(i + 1))
           /\ ~Is(i + 1, "begin")
           /\ Is(i + 1, "word") /\ (Is(i, "option") \/ Is(i, "word")) => Is(i + 2, "begin")
    /\ st = "FSM_CHILD_END" =>
           /\ Around(i + 1) # 0 /\ c = BlockAt(Around(Around(i + 1)))
           /\ Is(i + 1, "end") \/ AtEof(i + 1)
    /\ st = "parsed" => i = Extent /\ Depth(i) = 0
    /\ st \in {"SnmpfwdError", "IndexError"} => ~WellFormed

Reading(i, bs, c, st) == Sound(i) /\ Nests(i, bs) /\ Contents(i, bs) /\ Place(i, c, st)

(* The state is named by rigid variables: the text does not change, so it  *)
(* need only be spoken of before the step.                                 *)
ParserInv ==
    /\ TypeInv
    /\ BlocksNamed =>
           \A i, bs, c, st : i = index /\ bs = blocks /\ c = current /\ st = state
                                 => Reading(i, bs, c, st)

(* As long as the text is the same, so is all that is said of it.          *)
LEMMA TextUnchanged ==
    ASSUME tokens' = tokens
    PROVE  /\ BlocksNamed' <=> BlocksNamed
           /\ \A i, bs, c, st : Reading(i, bs, c, st)' <=> Reading(i, bs, c, st)
<1>1. \A i, s : Is(i, s)' <=> Is(i, s)
    BY DEF Is
<1>2. \A s, i : Count(s, i)' = Count(s, i)
    BY <1>1 DEF Count
<1>3. \A i : Depth(i)' = Depth(i) /\ BlockAt(i)' = BlockAt(i)
    BY <1>2 DEF Depth, BlockAt
<1>4. \A i : Around(i)' = Around(i)
    <2>1. \A i : OpenAt(i)' = OpenAt(i)
        BY <1>1, <1>3 DEF OpenAt
    <2>2. \A i : Around(i) = IF OpenAt(i) = {} THEN 0 ELSE Largest(OpenAt(i))
        BY DEF Around, OpenAt
    <2>3. \A i : Around(i)' = IF OpenAt(i)' = {} THEN 0 ELSE Largest(OpenAt(i)')
        BY DEF Around, OpenAt, Largest
    <2> QED BY <2>1, <2>2, <2>3
<1>5. \A i : OptionOf(i)' = OptionOf(i)
    BY <1>1 DEF OptionOf
<1>6. \A k : WrittenAt(k)' = WrittenAt(k)
    BY <1>1, <1>5 DEF WrittenAt
<1>7. \A k : ValuesOf(k)' = ValuesOf(k)
    BY <1>6 DEF ValuesOf, Value
<1>8. Extent' = Extent
    <2> DEFINE S == {i \in DOMAIN tokens : Depth(i) < 0}
    <2>1. S' = S
        BY <1>3
    <2>2. Extent = IF S = {} THEN Len(tokens) ELSE Smallest(S) - 1
        BY DEF Extent
    <2>3. Extent' = IF S' = {} THEN Len(tokens') ELSE Smallest(S') - 1
        BY DEF Extent, Smallest
    <2> HIDE DEF S
    <2> QED BY <2>1, <2>2, <2>3
<1>9. \A i : OptionsIn(i)' = OptionsIn(i)
    BY <1>1, <1>4, <1>8 DEF OptionsIn
<1>10. WellFormed' <=> WellFormed
    BY <1>1, <1>3, <1>4, <1>5, <1>8, <1>9 DEF WellFormed
<1>11. \A i, b : OptionsTo(i, b)' = OptionsTo(i, b)
    BY <1>1, <1>4 DEF OptionsTo
<1>12. \A i : AtEof(i)' <=> AtEof(i)
    BY DEF AtEof
<1>13. BlocksNamed' <=> BlocksNamed
    BY <1>1 DEF BlocksNamed
<1>14. \A i : Sound(i)' <=> Sound(i)
    BY <1>1, <1>3, <1>4, <1>5 DEF Sound
<1>15. \A i, bs : Nests(i, bs)' <=> Nests(i, bs)
    BY <1>1, <1>3, <1>4 DEF Nests
<1>16. \A i, bs : Contents(i, bs)' <=> Contents(i, bs)
    BY <1>1, <1>3, <1>7, <1>11 DEF Contents
<1>17. \A i, c, st : Place(i, c, st)' <=> Place(i, c, st)
    BY <1>1, <1>3, <1>4, <1>8, <1>10, <1>12 DEF Place
<1> QED BY <1>13, <1>14, <1>15, <1>16, <1>17 DEF Reading

-----------------------------------------------------------------------------
(* One token further.                                                      *)

(* What is sound is nested.                                                *)
LEMMA SoundNested == ASSUME NEW i, Sound(i) PROVE Nested(i)
BY DEF Sound, Nested

(* A token that is in its place keeps the text sound.                      *)
LEMMA SoundStep ==
    ASSUME NEW i \in Nat, Sound(i), Depth(i + 1) >= 0,
           Is(i + 1, "begin") => Is(i, "word"),
           Is(i + 1, "word") => OptionOf(i + 1) # {} \/ (Is(i + 2, "begin") /\ ~Is(i, "word")),
           Is(i + 1, "option") =>
               \A m \in 1..i : Is(m, "option") /\ Around(m) = Around(i + 1)
                                   => tokens[m] # tokens[i + 1]
    PROVE  Sound(i + 1)
<1> SUFFICES ASSUME NEW k \in 1..(i + 1)
             PROVE  /\ Depth(k) >= 0
                    /\ Is(k, "begin") => Is(k - 1, "word")
                    /\ Is(k, "word") => OptionOf(k) # {} \/ (Is(k + 1, "begin") /\ ~Is(k - 1, "word"))
                    /\ Is(k, "option") =>
                           \A m \in 1..(i + 1) :
                               Is(m, "option") /\ Around(m) = Around(k) /\ tokens[m] = tokens[k]
                                   => m = k
    BY DEF Sound
<1>1. CASE k = i + 1
    <2>1. (i + 1) - 1 = i /\ (i + 1) + 1 = i + 2
        OBVIOUS
    <2>2. Is(k, "option") =>
              \A m \in 1..(i + 1) : Is(m, "option") /\ Around(m) = Around(k) /\ tokens[m] = tokens[k]
                                        => m = k
        <3> SUFFICES ASSUME Is(k, "option"), NEW m \in 1..(i + 1), Is(m, "option"),
                            Around(m) = Around(k), tokens[m] = tokens[k], m # k
                     PROVE  FALSE
            OBVIOUS
        <3>1. m \in 1..i
            BY <1>1
        <3> QED BY <1>1, <3>1
    <2> QED BY <1>1, <2>1, <2>2
<1>2. CASE k \in 1..i
    <2>1. /\ Depth(k) >= 0
          /\ Is(k, "begin") => Is(k - 1, "word")
          /\ Is(k, "word") => OptionOf(k) # {} \/ (Is(k + 1, "begin") /\ ~Is(k - 1, "word"))
          /\ Is(k, "option") =>
                 \A m \in 1..i : Is(m, "option") /\ Around(m) = Around(k) /\ tokens[m] = tokens[k]
                                     => m = k
        BY <1>2 DEF Sound
    <2>2. ASSUME Is(k, "option"), NEW m \in 1..(i + 1), Is(m, "option"),
                 Around(m) = Around(k), tokens[m] = tokens[k]
          PROVE  m = k
        <3>1. CASE m \in 1..i
            BY <2>1, <2>2, <3>1
        <3>2. CASE m = i + 1
            BY <1>2, <2>2, <3>2
        <3> QED BY <2>2, <3>1, <3>2
    <2> QED BY <2>1, <2>2
<1> QED BY <1>1, <1>2

(* Words of an option.                                                     *)
LEMMA SoundWords ==
    ASSUME NEW i \in Nat, NEW j \in Nat, i <= j, i > 0, Sound(i),
           \A k \in (i + 1)..j : Is(k, "word") /\ OptionOf(k) # {}
    PROVE  Sound(j)
<1> SUFFICES ASSUME NEW k \in 1..j
             PROVE  /\ Depth(k) >= 0
                    /\ Is(k, "begin") => Is(k - 1, "word")
                    /\ Is(k, "word") => OptionOf(k) # {} \/ (Is(k + 1, "begin") /\ ~Is(k - 1, "word"))
                    /\ Is(k, "option") =>
                           \A m \in 1..j :
                               Is(m, "option") /\ Around(m) = Around(k) /\ tokens[m] = tokens[k]
                                   => m = k
    BY DEF Sound
<1>1. \A m \in (i + 1)..j : ~Is(m, "begin") /\ ~Is(m, "end") /\ ~Is(m, "option")
    BY OneKind
<1>2. CASE k \in (i + 1)..j
    <2>1. k \in Nat /\ i <= k /\ \A m \in (i + 1)..k : ~Is(m, "begin") /\ ~Is(m, "end")
        BY <1>1, <1>2
    <2>2. Depth(k) = Depth(i)
        BY <2>1, Flat
    <2>3. Depth(i) >= 0
        <3>1. i \in 1..i
            OBVIOUS
        <3> QED BY <3>1 DEF Sound
    <2> QED BY <1>1, <1>2, <2>2, <2>3
<1>3. CASE k \in 1..i
    <2>1. /\ Depth(k) >= 0
          /\ Is(k, "begin") => Is(k - 1, "word")
          /\ Is(k, "word") => OptionOf(k) # {} \/ (Is(k + 1, "begin") /\ ~Is(k - 1, "word"))
          /\ Is(k, "option") =>
                 \A m \in 1..i : Is(m, "option") /\ Around(m) = Around(k) /\ tokens[m] = tokens[k]
                                     => m = k
        BY <1>3 DEF Sound
    <2>2. \A m \in 1..j : Is(m, "option") => m \in 1..i
        BY <1>1
    <2> QED BY <2>1, <2>2
<1> QED BY <1>2, <1>3

(* Without a "{" no block is due.                                          *)
LEMMA NestsStep ==
    ASSUME NEW i \in Nat, NEW j \in Nat, i <= j, NEW bs, Nests(i, bs),
           \A k \in (i + 1)..j : ~Is(k, "begin")
    PROVE  Nests(j, bs)
<1>1. BlockAt(j) = BlockAt(i)
    BY CountFlat DEF BlockAt
<1>2. \A k \in 1..j : Is(k, "begin") => k \in 1..i
    OBVIOUS
<1> QED BY <1>1, <1>2 DEF Nests

(* Without an option no block has more options.                            *)
LEMMA ContentsStep ==
    ASSUME NEW i \in Nat, NEW bs, Contents(i, bs), ~Is(i + 1, "begin"), ~Is(i + 1, "option")
    PROVE  Contents(i + 1, bs)
<1>1. \A b : OptionsTo(i + 1, b) = OptionsTo(i, b)
    BY DEF OptionsTo
<1>2. \A b \in 0..(i + 1) : b = 0 \/ Is(b, "begin") => b \in 0..i
    OBVIOUS
<1> QED BY <1>1, <1>2 DEF Contents

(* A "{" may only follow a word or an option.                              *)
LEMMA NoBeginAfter ==
    ASSUME BlocksNamed, NEW i \in Nat, ~Is(i, "word"), ~Is(i, "option")
    PROVE  ~Is(i + 1, "begin")
<1> SUFFICES ASSUME Is(i + 1, "begin") PROVE FALSE
    OBVIOUS
<1>1. i + 1 \in DOMAIN tokens /\ (i + 1) - 1 = i
    BY DEF Is
<1>2. Is((i + 1) - 1, "word") \/ Is((i + 1) - 1, "option")
    BY <1>1 DEF BlocksNamed
<1> QED BY <1>1, <1>2

(* What is open around a place is the file or begins before.               *)
LEMMA AroundOpens ==
    ASSUME NEW i \in Nat
    PROVE  /\ Around(i + 1) \in 0..i
           /\ Around(i + 1) = 0 \/ (Around(i + 1) \in 1..i /\ Is(Around(i + 1), "begin"))
<1>1. i + 1 \in Nat
    OBVIOUS
<1>2. /\ Around(i + 1) \in Nat
      /\ Around(i + 1) # 0 => Around(i + 1) < i + 1 /\ Is(Around(i + 1), "begin")
    BY <1>1, AroundIs
<1> QED BY <1>2

(* load_section returns where its section ends.                            *)
LEMMA ReturnPlace ==
    ASSUME tokens \in Seq(Tokens), NEW i \in 0..Len(tokens), Sound(i), NEW bs, Nests(i, bs),
           NEW c, c = BlockAt(Around(i + 1)), Is(i + 1, "end") \/ AtEof(i + 1),
           NEW d, NEW st, IF c = Root THEN st = "parsed" /\ d = c
                          ELSE st = "FSM_CHILD_END" /\ d = bs[c].up
    PROVE  Place(i, d, st)
<1> DEFINE a == Around(i + 1)
<1>1. i \in Nat /\ Nested(i)
    BY SoundNested
<1>2. a = 0 \/ (a \in 1..i /\ Is(a, "begin"))
    BY <1>1, AroundOpens
<1>3. a \in Nat /\ c = BlockAt(a) /\ (a = 0 => Depth(i) = 0)
    BY <1>1, <1>2, AroundDepth
<1> HIDE DEF a
<1>4. CASE c = Root
    <2>1. BlockAt(a) = BlockAt(0)
        BY <1>3, <1>4, BlockAtZero DEF Root
    <2>2. a = 0
        BY <1>2, <1>3, <2>1, OneBlockEach
    <2>3. Depth(i) = 0
        BY <1>3, <2>2
    <2>4. Extent = i
        BY <1>1, <2>3, ExtentFrom
    <2> QED BY <1>4, <2>3, <2>4 DEF Place
<1>5. CASE c # Root
    <2>1. a # 0
        BY <1>3, <1>5, BlockAtZero DEF Root
    <2>2. bs[BlockAt(a)].up = BlockAt(Around(a))
        BY <1>2, <2>1 DEF Nests
    <2>3. st = "FSM_CHILD_END" /\ d = BlockAt(Around(a))
        BY <1>3, <1>5, <2>2
    <2> QED BY <2>1, <2>3 DEF a, Place
<1> QED BY <1>4, <1>5

-----------------------------------------------------------------------------
(* The words of an option.                                                 *)

LEMMA OptionOfWords ==
    ASSUME NEW i \in Nat, i > 0, Is(i, "option"), NEW k \in Nat, i < k,
           \A m \in (i + 1)..k : Is(m, "word")
    PROVE  i \in OptionOf(k)
BY DEF OptionOf

(* What the parser keeps of the words after an option is what WrittenAt    *)
(* says is written.                                                        *)
LEMMA WrittenIsKept ==
    ASSUME tokens \in Seq(Tokens), NEW i \in Nat, Is(i, "option"),
           ~(Run(i + 1) = 0 /\ Is(i + 1, "begin"))
    PROVE  ValuesOf(i) = ValuesFrom(i + 1)
<1> DEFINE first == i + 1
           r == Run(first)
           kept == Kept(first)
<1>1. Len(tokens) \in Nat /\ DOMAIN tokens = 1..Len(tokens) /\ i \in 1..Len(tokens)
    BY DEF Is
<1>2. first \in 1..(Len(tokens) + 1)
    BY <1>1
<1>3. /\ r \in Nat /\ first + r <= Len(tokens) + 1 /\ ~Is(first + r, "word")
      /\ \A k \in first..(first + r - 1) : Is(k, "word")
    BY <1>2, RunCounts
<1>4. kept = IF Is(first + r, "begin") THEN r - 1 ELSE r
    BY DEF Kept
<1>5. /\ kept \in Nat
      /\ DOMAIN ValuesFrom(first) = 1..kept
      /\ \A n \in 1..kept : ValuesFrom(first)[n] = Value(tokens[first + n - 1].text)
    BY <1>2, KeptValues
<1>6. ValuesFrom(first) = [n \in 1..kept |-> Value(tokens[first + n - 1].text)]
    BY DEF ValuesFrom
<1> HIDE DEF r, kept
<1>7. WrittenAt(i) = (i + 1)..(i + kept)
    <2>1. ASSUME NEW k \in WrittenAt(i) PROVE k \in (i + 1)..(i + kept)
        <3>1. /\ k \in 1..Len(tokens) /\ ~Is(k + 1, "begin") /\ i \in 1..(k - 1)
              /\ \A m \in (i + 1)..k : Is(m, "word")
            BY <1>1, <2>1 DEF WrittenAt, OptionOf
        <3>2. k < first + r
            <4> SUFFICES ASSUME k >= first + r PROVE FALSE
                BY <1>3, <3>1
            <4>1. first + r \in (i + 1)..k
                BY <1>3, <3>1
            <4> QED BY <1>3, <3>1, <4>1
        <3>3. CASE Is(first + r, "begin")
            <4>1. k + 1 # first + r
                BY <3>1, <3>3
            <4> QED BY <1>3, <1>4, <3>1, <3>2, <3>3, <4>1
        <3>4. CASE ~Is(first + r, "begin")
            BY <1>3, <1>4, <3>1, <3>2, <3>4
        <3> QED BY <3>3, <3>4
    <2>2. ASSUME NEW k \in (i + 1)..(i + kept) PROVE k \in WrittenAt(i)
        <3>1. kept <= r /\ k \in Nat
            BY <1>3, <1>4
        <3>2. k \in 1..Len(tokens) /\ i \in 1..(k - 1)
            BY <1>1, <1>3, <1>5, <3>1
        <3>3. \A m \in (i + 1)..k : m \in first..(first + r - 1)
            BY <1>3, <1>5, <3>1
        <3>4. i \in OptionOf(k)
            BY <1>3, <3>2, <3>3 DEF OptionOf
        <3>5. ~Is(k + 1, "begin")
            <4>1. CASE k + 1 \in first..(first + r - 1)
                BY <1>3, <4>1, OneKind
            <4>2. CASE k + 1 \notin first..(first + r - 1)
                <5>1. k + 1 = first + r /\ kept = r
                    BY <1>3, <1>4, <1>5, <3>1, <4>2
                <5>2. r # r - 1
                    BY <1>3
                <5> QED BY <1>4, <5>1, <5>2
            <4> QED BY <4>1, <4>2
        <3> QED BY <1>1, <3>2, <3>4, <3>5 DEF WrittenAt
    <2> QED BY <2>1, <2>2
<1>8. Cardinality(WrittenAt(i)) = kept
    <2> DEFINE a == i + 1
               b == i + kept
    <2>1. a \in Int /\ b \in Int /\ (a <= b => b - a + 1 = kept) /\ (a > b => kept = 0)
        BY <1>1, <1>5
    <2> HIDE DEF a, b
    <2>2. Cardinality(a..b) = IF a > b THEN 0 ELSE b - a + 1
        BY <2>1, FS_Interval
    <2>3. Cardinality(a..b) = kept
        BY <2>1, <2>2, <1>5
    <2> QED BY <1>7, <2>3 DEF a, b
<1>9. \A n \in 1..kept : first + n - 1 = i + n
    BY <1>1, <1>5
<1>10. [n \in 1..kept |-> Value(tokens[first + n - 1].text)] = [n \in 1..kept |-> Value(tokens[i + n].text)]
    BY <1>9
<1> QED BY <1>6, <1>8, <1>10 DEF ValuesOf

-----------------------------------------------------------------------------
(* Each step of the parser.                                                *)

Parsing == TypeInv /\ BlocksNamed /\ Reading(index, blocks, current, state)

(* Where the parser is, in the text and among the blocks.                  *)
LEMMA Bounds ==
    ASSUME TypeInv
    PROVE  /\ tokens \in Seq(Tokens) /\ Len(tokens) \in Nat /\ DOMAIN tokens = 1..Len(tokens)
           /\ index \in 0..Len(tokens) /\ index \in Nat
           /\ blocks \in Seq(BlockSet) /\ Len(blocks) \in Nat /\ DOMAIN blocks = 1..Len(blocks)
           /\ current \in DOMAIN blocks
BY DEF TypeInv

(* Nothing is read at first.                                               *)
LEMMA InitReads ==
    ASSUME Init, BlocksNamed
    PROVE  Reading(index, blocks, current, state)
<1>1. index = 0 /\ blocks = <<[name |-> "", up |-> 0, options |-> NoOptions]>>
      /\ current = 1 /\ state = "FSM_START"
    BY DEF Init, Root
<1>2. Sound(0)
    BY DEF Sound
<1>3. Nests(0, blocks)
    <2>1. Len(blocks) = 1
        BY <1>1
    <2> QED BY <2>1, BlockAtZero DEF Nests
<1>4. Contents(0, blocks)
    <2>1. OptionsTo(0, 0) = {}
        BY DEF OptionsTo
    <2>2. blocks[1].options = NoOptions
        BY <1>1
    <2>3. DOMAIN NoOptions = {}
        BY DEF NoOptions
    <2> QED BY <2>1, <2>2, <2>3, BlockAtZero DEF Contents
<1>5. Place(0, 1, "FSM_START")
    <2>1. 1 = BlockAt(Around(0 + 1))
        BY AroundFirst, BlockAtZero
    <2>2. \A s : ~Is(0, s)
        <3>1. tokens \in Seq(Tokens)
            BY FilesAssumption DEF Init
        <3> QED BY <3>1 DEF Is
    <2>3. ~Is(0 + 1, "begin")
        BY <2>2, NoBeginAfter
    <2> QED BY <2>1, <2>2, <2>3 DEF Place
<1> QED BY <1>1, <1>2, <1>3, <1>4, <1>5 DEF Reading

(* Return at a place where the section ends.                               *)
LEMMA ReturnReads ==
    ASSUME Parsing, Return, NEW i \in 0..Len(tokens), Sound(i), NEW bs, Nests(i, bs),
           bs[current].up = blocks[current].up,
           current = BlockAt(Around(i + 1)), Is(i + 1, "end") \/ AtEof(i + 1)
    PROVE  Place(i, current', state')
<1>1. IF current = Root THEN state' = "parsed" /\ current' = current
      ELSE state' = "FSM_CHILD_END" /\ current' = bs[current].up
    BY DEF Return
<1>2. tokens \in Seq(Tokens)
    BY DEF Parsing, TypeInv
<1> DEFINE c == current
           d == current'
           st == state'
<1>3. IF c = Root THEN st = "parsed" /\ d = c ELSE st = "FSM_CHILD_END" /\ d = bs[c].up
    BY <1>1
<1>4. c = BlockAt(Around(i + 1))
    OBVIOUS
<1> HIDE DEF c, d, st
<1>5. Place(i, d, st)
    BY <1>2, <1>3, <1>4, ReturnPlace
<1> QED BY <1>5 DEF d, st

(* The end of a section, or of the file.                                   *)
LEMMA SectionEndReads ==
    ASSUME Parsing, SectionEnd
    PROVE  Reading(index', blocks', current', state')
<1>1. Return /\ index' = index /\ blocks' = blocks /\ state = "FSM_START"
    BY DEF SectionEnd
<1>2. Is(index + 1, "end") \/ AtEof(index + 1)
    BY DEF SectionEnd
<1>3. /\ Sound(index) /\ Nests(index, blocks) /\ Contents(index, blocks)
      /\ current = BlockAt(Around(index + 1))
    BY <1>1 DEF Parsing, Reading, Place
<1>4. Place(index, current', state')
    BY <1>1, <1>2, <1>3, Bounds, ReturnReads DEF Parsing
<1> QED BY <1>1, <1>3, <1>4 DEF Reading

(* An error leaves what was read.                                          *)
LEMMA RaiseReads ==
    ASSUME Parsing, NEW error \in {"SnmpfwdError", "IndexError"}, Raise(error), ~WellFormed
    PROVE  Reading(index', blocks', current', state')
<1>1. index' = index /\ blocks' = blocks /\ current' = current /\ state' = error
    BY DEF Raise
<1>2. Place(index, current, error)
    BY DEF Place
<1> QED BY <1>1, <1>2 DEF Parsing, Reading

(* After a section inside, its "}" is skipped.                             *)
LEMMA ChildEndReads ==
    ASSUME Parsing, ChildEnd
    PROVE  Reading(index', blocks', current', state')
<1> DEFINE i == index
<1>1. /\ i \in Nat /\ i \in 0..Len(tokens) /\ tokens \in Seq(Tokens) /\ Len(tokens) \in Nat
      /\ DOMAIN tokens = 1..Len(tokens)
    BY Bounds DEF Parsing
<1>2. /\ Sound(i) /\ Nests(i, blocks) /\ Contents(i, blocks) /\ Nested(i)
      /\ Around(i + 1) # 0 /\ current = BlockAt(Around(Around(i + 1)))
      /\ Is(i + 1, "end") \/ AtEof(i + 1)
    BY SoundNested DEF ChildEnd, Parsing, Reading, Place
<1>3. Depth(i) > 0 /\ Depth(i) \in Int
    BY <1>1, <1>2, AroundDepth
<1>4. CASE Is(i + 1, "end")
    <2>1. /\ index' = i + 1 /\ state' = "FSM_START" /\ UNCHANGED <<blocks, current>>
        BY <1>4 DEF ChildEnd, ChildEndRead
    <2>2. ~Is(i + 1, "begin") /\ ~Is(i + 1, "word") /\ ~Is(i + 1, "option")
        BY <1>4, OneKind
    <2>3. Depth(i + 1) >= 0
        <3>1. Depth(i + 1) = Depth(i) - 1
            BY <1>1, <1>4, DepthStep
        <3> QED BY <1>3, <3>1
    <2>4. Sound(i + 1)
        BY <1>1, <1>2, <2>2, <2>3, SoundStep
    <2>5. Nests(i + 1, blocks)
        <3>1. i + 1 \in Nat /\ i <= i + 1 /\ \A k \in (i + 1)..(i + 1) : ~Is(k, "begin")
            BY <1>1, <2>2
        <3> QED BY <1>1, <1>2, <3>1, NestsStep
    <2>6. Contents(i + 1, blocks)
        BY <1>1, <1>2, <2>2, ContentsStep
    <2>7. Place(i + 1, current, "FSM_START")
        <3>1. (i + 1) + 1 = i + 2 /\ i + 1 \in Nat
            BY <1>1
        <3>2. Around(i + 2) = Around(Around(i + 1))
            BY <1>1, <1>2, <1>4, AroundEnd
        <3>3. ~Is((i + 1) + 1, "begin")
            BY <2>2, <3>1, NoBeginAfter DEF Parsing
        <3>4. current = BlockAt(Around((i + 1) + 1))
            BY <1>2, <3>1, <3>2
        <3> HIDE DEF i
        <3> QED BY <2>2, <3>3, <3>4 DEF Place
    <2> QED BY <2>1, <2>4, <2>5, <2>6, <2>7 DEF Reading
<1>5. CASE ~Is(i + 1, "end")
    <2>1. Raise("SnmpfwdError")
        BY <1>5 DEF ChildEnd
    <2>2. AtEof(i + 1)
        BY <1>2, <1>5
    <2>3. Extent = i
        BY <1>1, <1>2, <2>2, ExtentFrom
    <2>4. ~WellFormed
        BY <1>3, <2>3 DEF WellFormed
    <2> QED BY <2>1, <2>4, RaiseReads
<1> QED BY <1>4, <1>5

(* A text that is well formed as a whole is so at each place.              *)
LEMMA WellFormedHere ==
    ASSUME tokens \in Seq(Tokens), WellFormed, NEW i \in 1..Len(tokens), Nested(i)
    PROVE  /\ Is(i, "begin") => Is(i - 1, "word")
           /\ Is(i, "word") => OptionOf(i) # {} \/ (Is(i + 1, "begin") /\ ~Is(i - 1, "word"))
           /\ Is(i, "option") =>
                  \A k \in 1..i : Is(k, "option") /\ Around(k) = Around(i) /\ tokens[k] = tokens[i]
                                      => k = i
<1>1. Len(tokens) \in Nat /\ DOMAIN tokens = 1..Len(tokens) /\ i \in 0..Len(tokens) /\ i \in Nat
    OBVIOUS
<1>2. i \in 1..Extent /\ Extent \in Nat
    BY <1>1, ExtentIs
<1>3. \A k \in 1..i : Is(k, "option") => k \in OptionsIn(Around(k))
    BY <1>2 DEF OptionsIn
<1>4. /\ Is(i, "begin") => Is(i - 1, "word")
      /\ Is(i, "word") => OptionOf(i) # {} \/ (Is(i + 1, "begin") /\ ~Is(i - 1, "word"))
      /\ Is(i, "option") => \A k \in OptionsIn(Around(i)) : tokens[k] = tokens[i] => k = i
    BY <1>2 DEF WellFormed
<1> QED BY <1>3, <1>4

(* A word after a word of an option belongs to the option.                 *)
LEMMA OptionOfNext ==
    ASSUME NEW i \in Nat, i > 0, OptionOf(i) # {}, Is(i + 1, "word")
    PROVE  OptionOf(i + 1) # {}
<1>1. PICK j \in 1..(i - 1) : Is(j, "option") /\ \A k \in (j + 1)..i : Is(k, "word")
    BY DEF OptionOf
<1>2. (i + 1) - 1 = i /\ j \in 1..i
    OBVIOUS
<1>3. \A k \in (j + 1)..(i + 1) : k \in (j + 1)..i \/ k = i + 1
    OBVIOUS
<1>4. j \in OptionOf(i + 1)
    BY <1>1, <1>2, <1>3 DEF OptionOf
<1> QED BY <1>4

(* A section begins: its name, its "{", and a new block.                   *)
LEMMA SectionReads ==
    ASSUME Parsing, Section
    PROVE  Reading(index', blocks', current', state')
<1> DEFINE i == index
<1>1. /\ i \in Nat /\ i \in 0..Len(tokens) /\ tokens \in Seq(Tokens) /\ Len(tokens) \in Nat
      /\ DOMAIN tokens = 1..Len(tokens)
    BY Bounds DEF Parsing
<1>2. /\ Sound(i) /\ Nests(i, blocks) /\ Contents(i, blocks) /\ Nested(i)
      /\ current = BlockAt(Around(i + 1)) /\ ~Is(i + 1, "begin")
      /\ Is(i + 1, "word") /\ (Is(i, "option") \/ Is(i, "word")) => Is(i + 2, "begin")
      /\ state = "FSM_START"
    BY SoundNested DEF Section, Parsing, Reading, Place
<1>3. Is(i + 1, "word")
    BY <1>2 DEF Section
<1>4. ~Is(i + 1, "begin") /\ ~Is(i + 1, "end") /\ ~Is(i + 1, "option")
    BY <1>3, OneKind
<1>5. i + 1 \in Nat /\ i + 1 \in 1..Len(tokens) /\ (i + 1) - 1 = i /\ (i + 1) + 1 = i + 2
    BY <1>1, <1>3 DEF Is
<1>6. /\ BlockAt(i + 1) = BlockAt(i) /\ Depth(i + 1) = Depth(i) /\ Around(i + 2) = Around(i + 1)
    <2>1. i <= i + 1 /\ \A k \in (i + 1)..(i + 1) : ~Is(k, "begin") /\ ~Is(k, "end")
        BY <1>1, <1>4
    <2>2. /\ BlockAt(i + 1) = BlockAt(i) /\ Depth(i + 1) = Depth(i)
          /\ Around((i + 1) + 1) = Around(i + 1)
        BY <1>1, <1>5, <2>1, Flat
    <2> QED BY <1>5, <2>2
<1>7. Depth(i) \in Int /\ Depth(i) >= 0
    BY <1>1, <1>2, AroundDepth
<1>8. CASE Is(i + 2, "begin")
    <2> DEFINE b == [name |-> tokens[i + 1].text, up |-> current, options |-> NoOptions]
    <2>1. /\ blocks' = Append(blocks, b) /\ current' = Len(blocks) + 1
          /\ index' = i + 2 /\ state' = state
        BY <1>8 DEF Section
    <2>2. i + 2 \in Nat /\ (i + 1) + 1 = i + 2 /\ (i + 2) - 1 = i + 1 /\ i + 2 # 0
        BY <1>1
    <2>3. ~Is(i + 2, "word") /\ ~Is(i + 2, "option") /\ ~Is(i + 2, "end")
        BY <1>8, OneKind
    <2>4. Sound(i + 1)
        <3>1. OptionOf(i + 1) # {} \/ (Is(i + 2, "begin") /\ ~Is(i, "word"))
            <4>1. CASE Is(i, "word")
                <5>1. i \in 1..i
                    BY <1>1, <4>1 DEF Is
                <5>2. OptionOf(i) # {}
                    BY <1>2, <4>1, <5>1 DEF Sound
                <5> QED BY <1>1, <1>3, <5>1, <5>2, OptionOfNext
            <4>2. CASE ~Is(i, "word")
                BY <1>8, <4>2
            <4> QED BY <4>1, <4>2
        <3> QED BY <1>1, <1>2, <1>4, <1>6, <1>7, <3>1, SoundStep
    <2>5. Sound(i + 2)
        <3>1. Depth((i + 1) + 1) >= 0
            <4>1. Depth((i + 1) + 1) = Depth(i + 1) + 1
                BY <1>5, <1>8, <2>2, DepthStep
            <4> QED BY <1>6, <1>7, <4>1
        <3>2. /\ ~Is((i + 1) + 1, "word") /\ ~Is((i + 1) + 1, "option")
            BY <2>2, <2>3
        <3> DEFINE j == i + 1
        <3>3. j \in Nat /\ Sound(j) /\ Depth(j + 1) >= 0 /\ Is(j, "word")
              /\ ~Is(j + 1, "word") /\ ~Is(j + 1, "option") /\ j + 1 = i + 2
            BY <1>3, <1>5, <2>2, <2>4, <3>1, <3>2
        <3> HIDE DEF j
        <3>4. Sound(j + 1)
            BY <3>3, SoundStep
        <3> QED BY <3>3, <3>4
    <2>6. /\ b \in BlockSet /\ b.up = current /\ b.name = tokens[i + 1].text
          /\ b.options = NoOptions
        <3>1. tokens[i + 1] \in Tokens /\ tokens[i + 1].symbol = "word"
            BY <1>1, <1>3, <1>5 DEF Is
        <3>2. tokens[i + 1].text \in Names
            BY <3>1, TokenTypes DEF Names
        <3>3. NoOptions \in OptionsSet
            <4>1. NoOptions \in [{} -> Seq(Values)]
                BY DEF NoOptions
            <4> QED BY <4>1 DEF OptionsSet
        <3>4. current \in Nat
            BY Bounds DEF Parsing
        <3> QED BY <3>2, <3>3, <3>4 DEF BlockSet
    <2>7. /\ Len(blocks) \in Nat /\ Len(blocks') = Len(blocks) + 1
          /\ \A c \in 1..Len(blocks) : blocks'[c] = blocks[c]
          /\ blocks'[Len(blocks) + 1] = b
        <3>1. b.up \in DOMAIN blocks
            BY <2>6, Bounds DEF Parsing
        <3> HIDE DEF b
        <3> QED BY <2>1, <2>6, <3>1, AppendBlock DEF Parsing
    <2> HIDE DEF b
    <2>8. Len(blocks) = BlockAt(i) /\ BlockAt(i + 2) = Len(blocks) + 1
        <3>1. Len(blocks) = BlockAt(i)
            BY <1>2 DEF Nests
        <3>2. BlockAt((i + 1) + 1) = BlockAt(i + 1) + 1
            <4>1. /\ Count("begin", i + 1) \in Nat
                  /\ Count("begin", (i + 1) + 1) = Count("begin", i + 1) + 1
                BY <1>5, <1>8, <2>2, CountStep
            <4> QED BY <4>1 DEF BlockAt
        <3> QED BY <1>6, <2>2, <3>1, <3>2
    <2>9. \A k \in 0..i : BlockAt(k) \in 1..Len(blocks)
        <3> SUFFICES ASSUME NEW k \in 0..i PROVE BlockAt(k) \in 1..Len(blocks)
            OBVIOUS
        <3>1. k \in Nat /\ k <= i
            BY <1>1
        <3>2. BlockAt(k) \in Nat /\ BlockAt(k) >= 1 /\ BlockAt(k) <= BlockAt(i)
            BY <1>1, <3>1, BlockAtGrows
        <3> QED BY <2>7, <2>8, <3>2
    <2>10. \A k \in 1..(i + 2) : Is(k, "begin") => k \in 1..i \/ k = i + 2
        BY <1>1, <1>4
    <2>11. Nests(i + 2, blocks')
        <3>1. Len(blocks') = BlockAt(i + 2)
            BY <2>7, <2>8
        <3>2. ASSUME NEW k \in 1..(i + 2), Is(k, "begin")
              PROVE  /\ blocks'[BlockAt(k)].name = tokens[k - 1].text
                     /\ blocks'[BlockAt(k)].up = BlockAt(Around(k))
            <4>1. CASE k \in 1..i
                <5>1. blocks'[BlockAt(k)] = blocks[BlockAt(k)]
                    BY <1>1, <2>7, <2>9, <4>1
                <5> QED BY <1>2, <3>2, <4>1, <5>1 DEF Nests
            <4>2. CASE k = i + 2
                <5>1. blocks'[BlockAt(k)] = b
                    BY <2>7, <2>8, <4>2
                <5> QED BY <1>2, <1>6, <2>2, <2>6, <4>2, <5>1
            <4> QED BY <2>10, <3>2, <4>1, <4>2
        <3> QED BY <3>1, <3>2 DEF Nests
    <2>12. Contents(i + 2, blocks')
        <3>1. ASSUME NEW c \in 0..(i + 2), c = 0 \/ Is(c, "begin")
              PROVE  /\ DOMAIN blocks'[BlockAt(c)].options = {tokens[k].text : k \in OptionsTo(i + 2, c)}
                     /\ \A k \in OptionsTo(i + 2, c) :
                            blocks'[BlockAt(c)].options[tokens[k].text] = ValuesOf(k)
            <4>1. CASE c \in 0..i
                <5>1. blocks'[BlockAt(c)] = blocks[BlockAt(c)]
                    BY <2>7, <2>9, <4>1
                <5>2. OptionsTo(i + 2, c) = OptionsTo(i, c)
                    BY <1>1, <1>4, <2>3 DEF OptionsTo
                <5> QED BY <1>2, <3>1, <4>1, <5>1, <5>2 DEF Contents
            <4>2. CASE c = i + 2
                <5>1. blocks'[BlockAt(c)].options = NoOptions
                    BY <2>6, <2>7, <2>8, <4>2
                <5>2. OptionsTo(i + 2, c) = {}
                    <6> SUFFICES ASSUME NEW k \in 1..(i + 2), Around(k) = i + 2 PROVE FALSE
                        BY <4>2 DEF OptionsTo
                    <6>1. k \in Nat /\ Around(k) < k
                        BY <2>2, AroundIs
                    <6> QED BY <1>1, <6>1
                <5>3. DOMAIN NoOptions = {}
                    BY DEF NoOptions
                <5> QED BY <5>1, <5>2, <5>3
            <4> QED BY <1>1, <2>10, <3>1, <4>1, <4>2
        <3> QED BY <3>1 DEF Contents
    <2>13. Place(i + 2, Len(blocks) + 1, "FSM_START")
        <3> DEFINE j == i + 2
        <3>1. j \in Nat /\ j # 0 /\ Is(j, "begin") /\ ~Is(j, "word") /\ ~Is(j, "option")
            BY <1>8, <2>2, <2>3
        <3>2. Len(blocks) + 1 = BlockAt(j)
            BY <2>8
        <3> HIDE DEF j
        <3>3. Around(j + 1) = j
            BY <3>1, AroundBegin
        <3>4. ~Is(j + 1, "begin")
            BY <3>1, NoBeginAfter DEF Parsing
        <3>5. Place(j, Len(blocks) + 1, "FSM_START")
            BY <3>1, <3>2, <3>3, <3>4 DEF Place
        <3> QED BY <3>5 DEF j
    <2> QED BY <1>2, <2>1, <2>5, <2>11, <2>12, <2>13 DEF Reading
<1>9. CASE ~Is(i + 2, "begin")
    <2>1. Raise("SnmpfwdError")
        BY <1>9 DEF Section
    <2>2. Nested(i + 1)
        <3>1. \A k \in 1..(i + 1) : k \in 1..i \/ k = i + 1
            BY <1>1
        <3>2. Depth(i + 1) >= 0
            BY <1>6, <1>7
        <3> QED BY <1>2, <3>1, <3>2 DEF Nested
    <2>3. OptionOf(i + 1) = {}
        <3> SUFFICES ASSUME NEW j \in OptionOf(i + 1) PROVE FALSE
            OBVIOUS
        <3>1. j \in 1..i /\ Is(j, "option") /\ \A k \in (j + 1)..(i + 1) : Is(k, "word")
            BY <1>5 DEF OptionOf
        <3>2. CASE j = i
            BY <1>2, <1>3, <1>9, <3>1, <3>2
        <3>3. CASE j # i
            <4>1. i \in (j + 1)..(i + 1)
                BY <1>1, <3>1, <3>3
            <4> QED BY <1>2, <1>3, <1>9, <3>1, <4>1
        <3> QED BY <3>2, <3>3
    <2>4. ~WellFormed
        <3> DEFINE j == i + 1
        <3>1. j \in 1..Len(tokens) /\ Nested(j) /\ OptionOf(j) = {} /\ Is(j, "word") /\ ~Is(j + 1, "begin")
            BY <1>3, <1>5, <1>9, <2>2, <2>3
        <3> HIDE DEF j
        <3> QED BY <1>1, <3>1, WellFormedHere
    <2> QED BY <2>1, <2>4, RaiseReads
<1> QED BY <1>8, <1>9

(* The option after i is added to the block around it.                     *)
AddsOption(i, old, new) ==
    LET c == BlockAt(Around(i + 1))
        o == tokens[i + 1].text
    IN /\ o \notin DOMAIN old[c].options
       /\ \A b \in 0..i : BlockAt(b) # c => new[BlockAt(b)] = old[BlockAt(b)]
       /\ DOMAIN new[c].options = DOMAIN old[c].options \cup {o}
       /\ \A x \in DOMAIN new[c].options :
              new[c].options[x] = IF x = o THEN ValuesOf(i + 1) ELSE old[c].options[x]

(* The option read is added to the block around it and to no other.        *)
LEMMA GivenContents ==
    ASSUME NEW i \in Nat, NEW j \in Nat, i + 1 <= j, NEW old, NEW new,
           Contents(i, old), Is(i + 1, "option"), AddsOption(i, old, new),
           \A k \in (i + 2)..j : Is(k, "word")
    PROVE  Contents(j, new)
<1> DEFINE c == BlockAt(Around(i + 1))
           o == tokens[i + 1].text
<1>0. /\ o \notin DOMAIN old[c].options
      /\ \A b \in 0..i : BlockAt(b) # c => new[BlockAt(b)] = old[BlockAt(b)]
      /\ DOMAIN new[c].options = DOMAIN old[c].options \cup {o}
      /\ \A x \in DOMAIN new[c].options :
             new[c].options[x] = IF x = o THEN ValuesOf(i + 1) ELSE old[c].options[x]
    BY DEF AddsOption
<1> DEFINE a == Around(i + 1)
<1>1. \A k \in 1..j : k \in 1..i \/ k = i + 1 \/ k \in (i + 2)..j
    OBVIOUS
<1>2. /\ ~Is(i + 1, "begin")
      /\ \A k \in (i + 2)..j : ~Is(k, "begin") /\ ~Is(k, "option")
    BY OneKind
<1>3. a \in 0..i /\ (a = 0 \/ Is(a, "begin")) /\ c = BlockAt(a)
    BY AroundOpens
<1> HIDE DEF c
<1>4. \A b : OptionsTo(j, b) = IF b = a THEN OptionsTo(i, b) \cup {i + 1} ELSE OptionsTo(i, b)
    <2> SUFFICES ASSUME NEW b
                 PROVE  OptionsTo(j, b) = IF b = a THEN OptionsTo(i, b) \cup {i + 1} ELSE OptionsTo(i, b)
        OBVIOUS
    <2>1. \A k : k \in OptionsTo(j, b) <=> k \in 1..j /\ Is(k, "option") /\ Around(k) = b
        BY DEF OptionsTo
    <2>2. \A k : k \in OptionsTo(i, b) <=> k \in 1..i /\ Is(k, "option") /\ Around(k) = b
        BY DEF OptionsTo
    <2>3. i + 1 \in 1..j /\ \A k \in 1..i : k \in 1..j
        OBVIOUS
    <2>4. \A k : k \in OptionsTo(j, b) <=> k \in OptionsTo(i, b) \/ (k = i + 1 /\ b = a)
        <3> SUFFICES ASSUME NEW k
                     PROVE  k \in OptionsTo(j, b) <=> k \in OptionsTo(i, b) \/ (k = i + 1 /\ b = a)
            OBVIOUS
        <3>1. CASE k \in OptionsTo(j, b)
            <4>1. k \in 1..j /\ Is(k, "option") /\ Around(k) = b
                BY <2>1, <3>1
            <4>2. k \in 1..i \/ k = i + 1
                BY <1>1, <1>2, <4>1
            <4> QED BY <2>2, <3>1, <4>1, <4>2
        <3>2. CASE k \in OptionsTo(i, b)
            BY <2>1, <2>2, <2>3, <3>2
        <3>3. CASE k = i + 1 /\ b = a
            BY <2>1, <2>3, <3>3
        <3> QED BY <3>1, <3>2, <3>3
    <2> HIDE DEF a
    <2>5. CASE b = a
        BY <2>4, <2>5
    <2>6. CASE b # a
        BY <2>4, <2>6
    <2> QED BY <2>5, <2>6
<1>10. o = tokens[i + 1].text
    OBVIOUS
<1> HIDE DEF a, o
<1>5. SUFFICES ASSUME NEW b \in 0..j, b = 0 \/ Is(b, "begin")
      PROVE  /\ DOMAIN new[BlockAt(b)].options = {tokens[k].text : k \in OptionsTo(j, b)}
             /\ \A k \in OptionsTo(j, b) : new[BlockAt(b)].options[tokens[k].text] = ValuesOf(k)
    BY DEF Contents
<1>6. b \in 0..i
    BY <1>1, <1>2, <1>5
<1>7. /\ DOMAIN old[BlockAt(b)].options = {tokens[k].text : k \in OptionsTo(i, b)}
      /\ \A k \in OptionsTo(i, b) : old[BlockAt(b)].options[tokens[k].text] = ValuesOf(k)
    BY <1>5, <1>6 DEF Contents
<1>8. CASE b = a
    <2>1. BlockAt(b) = c /\ OptionsTo(j, b) = OptionsTo(i, b) \cup {i + 1}
        BY <1>3, <1>4, <1>8
    <2>2. DOMAIN new[c].options = {tokens[k].text : k \in OptionsTo(j, b)}
        BY <1>0, <1>7, <1>10, <2>1
    <2>3. ASSUME NEW k \in OptionsTo(j, b) PROVE new[c].options[tokens[k].text] = ValuesOf(k)
        <3>1. CASE k = i + 1
            <4>1. o \in DOMAIN new[c].options
                BY <1>0
            <4> QED BY <1>0, <1>10, <3>1, <4>1
        <3>2. CASE k \in OptionsTo(i, b)
            <4>1. tokens[k].text \in DOMAIN old[c].options
                BY <1>7, <2>1, <3>2
            <4>2. tokens[k].text # o /\ tokens[k].text \in DOMAIN new[c].options
                BY <1>0, <4>1
            <4>3. new[c].options[tokens[k].text] = old[c].options[tokens[k].text]
                BY <1>0, <4>2
            <4> QED BY <1>7, <2>1, <3>2, <4>3
        <3> QED BY <2>1, <2>3, <3>1, <3>2
    <2> QED BY <2>1, <2>2, <2>3
<1>9. CASE b # a
    <2>1. BlockAt(b) # c
        <3>1. a \in Nat /\ b \in Nat
            BY <1>3, <1>6
        <3> QED BY <1>3, <1>5, <1>9, <3>1, OneBlockEach
    <2>2. new[BlockAt(b)] = old[BlockAt(b)] /\ OptionsTo(j, b) = OptionsTo(i, b)
        BY <1>0, <1>4, <1>5, <1>6, <1>9, <2>1
    <2> QED BY <1>7, <2>2
<1> QED BY <1>8, <1>9

(* The option is in the block already.                                     *)
LEMMA OccurredReads ==
    ASSUME Parsing, state = "FSM_START", Is(index + 1, "option"), Occurred(tokens[index + 1].text)
    PROVE  ~WellFormed
<1> DEFINE i == index
           o == tokens[i + 1].text
           a == Around(i + 1)
<1>1. /\ i \in Nat /\ i \in 0..Len(tokens) /\ tokens \in Seq(Tokens) /\ Len(tokens) \in Nat
      /\ DOMAIN tokens = 1..Len(tokens)
    BY Bounds DEF Parsing
<1>2. /\ Sound(i) /\ Nested(i) /\ Contents(i, blocks) /\ current = BlockAt(a)
    BY SoundNested DEF Parsing, Reading, Place
<1>3. a \in 0..i /\ (a = 0 \/ Is(a, "begin"))
    BY <1>1, AroundOpens
<1>4. i + 1 \in 1..Len(tokens) /\ tokens[i + 1] = Option(o)
    BY OptionRead DEF Parsing
<1>5. o \in {tokens[k].text : k \in OptionsTo(i, a)}
    BY <1>2, <1>3 DEF Contents, Occurred
<1>6. PICK m \in OptionsTo(i, a) : tokens[m].text = o
    BY <1>5
<1>7. m \in 1..i /\ Is(m, "option") /\ Around(m) = a
    BY <1>6 DEF OptionsTo
<1>8. tokens[m] = Option(o)
    <2>1. tokens[m] \in Tokens /\ tokens[m].symbol = "option"
        BY <1>1, <1>7 DEF Is
    <2> QED BY <1>6, <2>1, TokenTypes
<1>9. Nested(i + 1)
    <2>1. ~Is(i + 1, "begin") /\ ~Is(i + 1, "end")
        BY OneKind
    <2>2. Depth(i + 1) = Depth(i) /\ Depth(i) >= 0
        BY <1>1, <1>2, <2>1, DepthStep, AroundDepth
    <2>3. \A k \in 1..(i + 1) : k \in 1..i \/ k = i + 1
        BY <1>1
    <2> QED BY <1>2, <2>2, <2>3 DEF Nested
<1> SUFFICES ASSUME WellFormed PROVE FALSE
    OBVIOUS
<1> DEFINE j == i + 1
<1>10. /\ j \in 1..Len(tokens) /\ Nested(j) /\ Is(j, "option") /\ m \in 1..j /\ m # j
       /\ Around(m) = Around(j) /\ tokens[m] = tokens[j]
    BY <1>1, <1>4, <1>7, <1>8, <1>9
<1> HIDE DEF i, j, a, o
<1> QED BY <1>1, <1>7, <1>10, WellFormedHere

(* An option and nothing before a "{".                                     *)
LEMMA IndexErrorReads ==
    ASSUME Parsing, state = "FSM_START", Is(index + 1, "option"), Is(index + 2, "begin")
    PROVE  ~WellFormed
<1> DEFINE i == index
           j == i + 2
<1>1. /\ i \in Nat /\ i \in 0..Len(tokens) /\ tokens \in Seq(Tokens) /\ Len(tokens) \in Nat
      /\ DOMAIN tokens = 1..Len(tokens)
    BY Bounds DEF Parsing
<1>2. Sound(i) /\ Nested(i)
    BY SoundNested DEF Parsing, Reading
<1>3. i + 1 \in Nat /\ (i + 1) + 1 = j /\ j - 1 = i + 1 /\ j \in 1..Len(tokens)
    BY <1>1 DEF Is
<1>4. ~Is(i + 1, "begin") /\ ~Is(i + 1, "end") /\ ~Is(i + 1, "word")
    BY OneKind
<1>5. Depth(i) >= 0 /\ Depth(i) \in Int /\ Depth(i + 1) = Depth(i)
    BY <1>1, <1>2, <1>4, AroundDepth, DepthStep
<1>6. Depth(j) = Depth(i) + 1
    <2>1. Depth((i + 1) + 1) = Depth(i + 1) + 1
        BY <1>3, DepthStep
    <2> QED BY <1>3, <1>5, <2>1
<1>7. Nested(j)
    <2>1. \A k \in 1..j : k \in 1..i \/ k = i + 1 \/ k = j
        BY <1>1
    <2> QED BY <1>2, <1>5, <1>6, <2>1 DEF Nested
<1>8. Is(j, "begin") /\ ~Is(j - 1, "word")
    BY <1>3, <1>4
<1> HIDE DEF i, j
<1> QED BY <1>1, <1>3, <1>7, <1>8, WellFormedHere

(* An option and its values, or one of the two errors.                     *)
LEMMA ReadOptionReads ==
    ASSUME Parsing, ReadOption
    PROVE  Reading(index', blocks', current', state')
<1> DEFINE i == index
           o == tokens[i + 1].text
           first == i + 2
           run == Run(first)
           kept == Kept(first)
           next == first + run
           j == i + 1 + kept
<1>1. /\ i \in Nat /\ i \in 0..Len(tokens) /\ tokens \in Seq(Tokens) /\ Len(tokens) \in Nat
      /\ DOMAIN tokens = 1..Len(tokens)
    BY Bounds DEF Parsing
<1>2. /\ Sound(i) /\ Nests(i, blocks) /\ Contents(i, blocks) /\ Nested(i)
      /\ current = BlockAt(Around(i + 1)) /\ state = "FSM_START"
    BY SoundNested DEF ReadOption, Parsing, Reading, Place
<1>3. Is(i + 1, "option")
    BY DEF ReadOption
<1>4. /\ i + 1 \in 1..Len(tokens) /\ first \in 1..(Len(tokens) + 1) /\ o \in Options
    BY <1>3, OptionRead DEF Parsing
<1>5. /\ run \in Nat /\ next <= Len(tokens) + 1 /\ ~Is(next, "word")
      /\ \A k \in first..(next - 1) : Is(k, "word")
    BY <1>1, <1>4, RunCounts
<1>6. \/ Occurred(o) /\ Raise("SnmpfwdError")
      \/ ~Occurred(o) /\ next = first /\ Is(next, "begin") /\ Raise("IndexError")
      \/ /\ ~Occurred(o) /\ ~(next = first /\ Is(next, "begin"))
         /\ Given(o, ValuesFrom(first))
         /\ index' = j
         /\ IF AtEof(next) THEN Return ELSE UNCHANGED <<tokens, current, state>>
    BY DEF ReadOption
<1>7. CASE Occurred(o) /\ Raise("SnmpfwdError")
    BY <1>2, <1>3, <1>7, OccurredReads, RaiseReads
<1>8. CASE ~Occurred(o) /\ next = first /\ Is(next, "begin") /\ Raise("IndexError")
    <2>1. Is(i + 2, "begin")
        BY <1>8
    <2> QED BY <1>2, <1>3, <1>8, <2>1, IndexErrorReads, RaiseReads
<1>9. CASE /\ ~Occurred(o) /\ ~(next = first /\ Is(next, "begin"))
           /\ Given(o, ValuesFrom(first))
           /\ index' = j
           /\ IF AtEof(next) THEN Return ELSE UNCHANGED <<tokens, current, state>>
    <2>1. ~(run = 0 /\ Is(first, "begin"))
        BY <1>1, <1>9
    <2>2. /\ kept \in Nat /\ kept <= run /\ first + kept <= Len(tokens) + 1
          /\ ValuesFrom(first) \in Seq(Values)
        BY <1>1, <1>4, <2>1, KeptValues
    <2>3. kept = IF Is(next, "begin") THEN run - 1 ELSE run
        BY DEF Kept
    <2>4. ValuesFrom(first) = ValuesOf(i + 1)
        <3>1. i + 1 \in Nat /\ (i + 1) + 1 = first
            BY <1>1
        <3>2. ~(Run((i + 1) + 1) = 0 /\ Is((i + 1) + 1, "begin"))
            BY <2>1, <3>1
        <3> QED BY <1>1, <1>3, <3>1, <3>2, WrittenIsKept
    <2>5. /\ Len(blocks') = Len(blocks)
          /\ \A b \in DOMAIN blocks :
                 /\ blocks'[b].name = blocks[b].name
                 /\ blocks'[b].up = blocks[b].up
                 /\ b # current => blocks'[b] = blocks[b]
          /\ DOMAIN blocks'[current].options = DOMAIN blocks[current].options \cup {o}
          /\ \A x \in DOMAIN blocks'[current].options :
                 blocks'[current].options[x] =
                     IF x = o THEN ValuesOf(i + 1) ELSE blocks[current].options[x]
        <3>1. /\ DOMAIN blocks' = DOMAIN blocks /\ blocks' \in Seq(BlockSet)
              /\ \A b \in DOMAIN blocks :
                     /\ blocks'[b].name = blocks[b].name
                     /\ blocks'[b].up = blocks[b].up
                     /\ b # current => blocks'[b] = blocks[b]
              /\ DOMAIN blocks'[current].options = DOMAIN blocks[current].options \cup {o}
              /\ \A x \in DOMAIN blocks'[current].options :
                     blocks'[current].options[x] =
                         IF x = o THEN ValuesFrom(first) ELSE blocks[current].options[x]
            BY <1>4, <1>9, <2>2, GivenType DEF Parsing
        <3>2. Len(blocks') = Len(blocks)
            BY <3>1, Bounds DEF Parsing
        <3> QED BY <2>4, <3>1, <3>2
    <2>6. /\ j \in Nat /\ i + 1 <= j /\ j \in 0..Len(tokens) /\ i <= j /\ j + 1 = first + kept
          /\ first = i + 2 /\ i + 1 \in Nat /\ i + 1 > 0
        BY <1>1, <2>2
    <2>7. next \in Nat /\ next = first + run /\ (kept = run => j + 1 = next)
          /\ (kept = run - 1 => j + 2 = next)
        BY <1>1, <1>5
    <2> HIDE DEF i, j, kept, run, next, first, o
    <2>8. \A k \in first..j : Is(k, "word")
        BY <1>5, <2>2, <2>6, <2>7
    <2>9. \A k \in (i + 1)..j : ~Is(k, "begin") /\ ~Is(k, "end")
        <3>1. \A k \in (i + 1)..j : k = i + 1 \/ k \in first..j
            BY <1>1, <2>6
        <3> QED BY <1>3, <2>8, <3>1, OneKind
    <2>10. /\ BlockAt(j) = BlockAt(i) /\ Around(j + 1) = Around(i + 1)
        BY <1>1, <2>6, <2>9, Flat
    <2>11. Sound(j)
        <3>1. Sound(i + 1)
            <4>1. Depth(i + 1) >= 0
                <5>1. ~Is(i + 1, "begin") /\ ~Is(i + 1, "end")
                    BY <1>3, OneKind
                <5> QED BY <1>1, <1>2, <5>1, AroundDepth, DepthStep
            <4>2. ~Is(i + 1, "begin") /\ ~Is(i + 1, "word")
                BY <1>3, OneKind
            <4>3. \A m \in 1..i : Is(m, "option") /\ Around(m) = Around(i + 1)
                                      => tokens[m] # tokens[i + 1]
                <5> SUFFICES ASSUME NEW m \in 1..i, Is(m, "option"), Around(m) = Around(i + 1),
                                    tokens[m] = tokens[i + 1]
                             PROVE  FALSE
                    OBVIOUS
                <5> DEFINE a == Around(i + 1)
                <5>1. a \in 0..i /\ (a = 0 \/ Is(a, "begin"))
                    BY <1>1, AroundOpens
                <5>2. m \in OptionsTo(i, a)
                    BY DEF OptionsTo
                <5>3. tokens[m].text \in DOMAIN blocks[BlockAt(a)].options
                    BY <1>2, <5>1, <5>2 DEF Contents
                <5>4. o = tokens[m].text
                    BY DEF o
                <5> QED BY <1>2, <1>9, <5>3, <5>4 DEF Occurred
            <4> QED BY <1>1, <1>2, <4>1, <4>2, <4>3, SoundStep
        <3>2. ASSUME NEW k \in ((i + 1) + 1)..j PROVE Is(k, "word") /\ OptionOf(k) # {}
            <4>1. k \in Nat /\ i + 1 < k /\ \A m \in ((i + 1) + 1)..k : m \in first..j
                BY <1>1, <2>6
            <4>2. i + 1 \in OptionOf(k)
                BY <1>3, <2>6, <2>8, <4>1, OptionOfWords
            <4>3. k \in first..j
                BY <1>1, <2>6
            <4> QED BY <2>8, <4>2, <4>3
        <3> QED BY <2>6, <3>1, <3>2, SoundWords
    <2>12. Nests(j, blocks')
        <3>1. Nests(j, blocks)
            BY <1>1, <1>2, <2>6, <2>9, NestsStep
        <3>2. \A k \in 1..j : BlockAt(k) \in DOMAIN blocks
            <4> SUFFICES ASSUME NEW k \in 1..j PROVE BlockAt(k) \in DOMAIN blocks
                OBVIOUS
            <4>1. k \in Nat /\ k <= j
                BY <2>6
            <4>2. BlockAt(k) \in Nat /\ BlockAt(k) >= 1 /\ BlockAt(k) <= BlockAt(j)
                BY <2>6, <4>1, BlockAtGrows
            <4>3. Len(blocks) = BlockAt(j)
                BY <3>1 DEF Nests
            <4> QED BY <4>2, <4>3, Bounds DEF Parsing
        <3> QED BY <2>5, <3>1, <3>2 DEF Nests
    <2>13. Contents(j, blocks')
        <3>1. \A b \in 0..i : BlockAt(b) # current => blocks'[BlockAt(b)] = blocks[BlockAt(b)]
            <4> SUFFICES ASSUME NEW b \in 0..i PROVE BlockAt(b) \in DOMAIN blocks
                BY <2>5
            <4>1. b \in Nat /\ b <= i
                BY <1>1
            <4>2. BlockAt(b) \in Nat /\ BlockAt(b) >= 1 /\ BlockAt(b) <= BlockAt(i)
                BY <1>1, <4>1, BlockAtGrows
            <4>3. Len(blocks) = BlockAt(i)
                BY <1>2 DEF Nests
            <4> QED BY <4>2, <4>3, Bounds DEF Parsing
        <3>2. o \notin DOMAIN blocks[current].options /\ o = tokens[i + 1].text
            BY <1>9 DEF Occurred, o
        <3>3. AddsOption(i, blocks, blocks')
            BY <1>2, <2>5, <3>1, <3>2 DEF AddsOption
        <3> DEFINE new == blocks'
        <3>4. AddsOption(i, blocks, new)
            BY <3>3
        <3> HIDE DEF new
        <3>5. \A k \in (i + 2)..j : Is(k, "word")
            BY <2>6, <2>8
        <3>6. Contents(j, new)
            BY <1>1, <1>2, <1>3, <2>6, <3>4, <3>5, GivenContents
        <3> QED BY <3>6 DEF new
    <2>14. current = BlockAt(Around(j + 1))
        BY <1>2, <2>10
    <2>15. CASE AtEof(next)
        <3>1. Return
            BY <1>9, <2>15
        <3>2. ~Is(next, "begin")
            BY <1>1, <2>7, <2>15 DEF AtEof, Is
        <3>3. AtEof(j + 1)
            BY <2>3, <2>7, <2>15, <3>2
        <3>4. blocks'[current].up = blocks[current].up
            BY <2>5, Bounds DEF Parsing
        <3> DEFINE new == blocks'
        <3>5. Nests(j, new) /\ new[current].up = blocks[current].up
            BY <2>12, <3>4
        <3> HIDE DEF new
        <3>6. Place(j, current', state')
            BY <2>6, <2>11, <2>14, <3>1, <3>3, <3>5, ReturnReads
        <3> QED BY <1>9, <2>11, <2>12, <2>13, <3>6 DEF Reading
    <2>16. CASE ~AtEof(next)
        <3>1. current' = current /\ state' = state
            BY <1>9, <2>16
        <3>2. CASE Is(next, "begin")
            <4>1. kept = run - 1 /\ j + 2 = next
                BY <2>3, <2>7, <3>2
            <4>2. Is(j + 1, "word") /\ ~Is(j + 1, "begin")
                <5>1. j + 1 \in first..(next - 1)
                    BY <2>2, <2>6, <4>1
                <5> QED BY <1>5, <5>1, OneKind
            <4> QED BY <1>2, <1>9, <2>11, <2>12, <2>13, <2>14, <3>1, <3>2, <4>1, <4>2
                    DEF Place, Reading
        <3>3. CASE ~Is(next, "begin")
            <4>1. j + 1 = next
                BY <2>3, <2>7, <3>3
            <4> QED BY <1>2, <1>5, <1>9, <2>11, <2>12, <2>13, <2>14, <3>1, <3>3, <4>1
                    DEF Place, Reading
        <3> QED BY <3>2, <3>3
    <2> QED BY <2>15, <2>16
<1> QED BY <1>6, <1>7, <1>8, <1>9

-----------------------------------------------------------------------------
(* The invariant, and what it says of the end.                             *)

LEMMA ParserStep == ASSUME ParserInv, [Next]_vars PROVE ParserInv'
<1>1. TypeInv'
    BY TypeStep DEF ParserInv
<1>2. tokens' = tokens
    BY DEF Next, SectionEnd, ChildEnd, Section, ReadOption, Raise, Return, vars
<1>3. BlocksNamed => Reading(index', blocks', current', state')
    <2> SUFFICES ASSUME BlocksNamed PROVE Reading(index', blocks', current', state')
        OBVIOUS
    <2>1. Parsing
        BY DEF ParserInv, Parsing
    <2>2. CASE UNCHANGED vars
        BY <2>1, <2>2 DEF vars, Parsing
    <2>3. CASE Next
        BY <2>1, <2>3, SectionEndReads, ChildEndReads, SectionReads, ReadOptionReads DEF Next
    <2> QED BY <2>2, <2>3
<1>4. (BlocksNamed => \A i, bs, c, st : i = index /\ bs = blocks /\ c = current /\ st = state
                                            => Reading(i, bs, c, st))'
    <2>1. BlocksNamed' => BlocksNamed
        BY <1>2, TextUnchanged
    <2>2. ASSUME BlocksNamed, NEW i, NEW bs, NEW c, NEW st,
                 i = index', bs = blocks', c = current', st = state'
          PROVE  Reading(i, bs, c, st)'
        <3>1. Reading(i, bs, c, st)
            BY <1>3, <2>2
        <3> QED BY <1>2, <3>1, TextUnchanged
    <2> QED BY <2>1, <2>2
<1> QED BY <1>1, <1>4 DEF ParserInv

(* The invariant holds at first.                                           *)
LEMMA ParserInit == ASSUME Init PROVE ParserInv
BY TypeInit, InitReads DEF ParserInv

(* The parser has read what the text says, at every step.                  *)
LEMMA Invariant == Spec => []ParserInv
<1>1. Init => ParserInv
    BY ParserInit
<1>2. ParserInv /\ [Next]_vars => ParserInv'
    BY ParserStep
<1> QED BY <1>1, <1>2, PTL DEF Spec

(* A text that is sound to its extent, with each block ended, is well      *)
(* formed.                                                                 *)
LEMMA SoundIsWellFormed ==
    ASSUME Sound(Extent), Depth(Extent) = 0
    PROVE  WellFormed
BY DEF Sound, WellFormed, OptionsIn

(* Of the files in which no "{" is taken for the name of a block, the      *)
(* parser accepts the well-formed ones only, and reads them up to a "}"    *)
(* that closes nothing.                                                    *)
THEOREM WellFormedIsAccepted == Spec => []AcceptsWellFormedOnly
<1>1. ParserInv => AcceptsWellFormedOnly
    <2> SUFFICES ASSUME ParserInv, BlocksNamed
                 PROVE  /\ state = "parsed" => WellFormed /\ index = Extent
                        /\ state \in {"SnmpfwdError", "IndexError"} => ~WellFormed
        BY DEF AcceptsWellFormedOnly
    <2>1. Sound(index) /\ Place(index, current, state)
        BY DEF ParserInv, Reading
    <2>2. state = "parsed" => index = Extent /\ Depth(index) = 0
        BY <2>1 DEF Place
    <2>3. state = "parsed" => WellFormed
        BY <2>1, <2>2, SoundIsWellFormed
    <2>4. state \in {"SnmpfwdError", "IndexError"} => ~WellFormed
        BY <2>1 DEF Place
    <2> QED BY <2>2, <2>3, <2>4
<1> QED BY <1>1, Invariant, PTL

(* What was read of a file that was accepted is what stands in it: its     *)
(* blocks, where they are, and their options with all their values.        *)
THEOREM WhatIsWrittenIsRead == Spec => []ReadsAsWritten
<1>1. ParserInv => ReadsAsWritten
    <2> SUFFICES ASSUME ParserInv, BlocksNamed, state = "parsed"
                 PROVE  /\ Len(blocks) = BlockAt(Extent)
                        /\ \A i \in {j \in 1..Extent : Is(j, "begin")} :
                               /\ blocks[BlockAt(i)].name = tokens[i - 1].text
                               /\ blocks[BlockAt(i)].up = BlockAt(Around(i))
                        /\ \A i \in {0} \cup {j \in 1..Extent : Is(j, "begin")} :
                               /\ DOMAIN blocks[BlockAt(i)].options = {tokens[k].text : k \in OptionsIn(i)}
                               /\ \A k \in OptionsIn(i) :
                                      blocks[BlockAt(i)].options[tokens[k].text]
                                          = [n \in 1..Cardinality(WrittenAt(k)) |-> Value(tokens[k + n].text)]
        BY DEF ReadsAsWritten
    <2>1. /\ Nests(index, blocks) /\ Contents(index, blocks) /\ index = Extent
        BY DEF ParserInv, Reading, Place
    <2>2. Extent \in Nat
        BY <2>1, Bounds DEF ParserInv
    <2>3. \A i : OptionsIn(i) = OptionsTo(Extent, i)
        BY DEF OptionsIn, OptionsTo
    <2>4. ASSUME NEW i \in {0} \cup {j \in 1..Extent : Is(j, "begin")}
          PROVE  /\ DOMAIN blocks[BlockAt(i)].options = {tokens[k].text : k \in OptionsIn(i)}
                 /\ \A k \in OptionsIn(i) : blocks[BlockAt(i)].options[tokens[k].text] = ValuesOf(k)
        <3>1. i \in 0..Extent /\ (i = 0 \/ Is(i, "begin"))
            BY <2>2
        <3> QED BY <2>1, <2>3, <3>1 DEF Contents
    <2>5. \A k : ValuesOf(k) = [n \in 1..Cardinality(WrittenAt(k)) |-> Value(tokens[k + n].text)]
        BY DEF ValuesOf
    <2> QED BY <2>1, <2>4, <2>5 DEF Nests
<1> QED BY <1>1, Invariant, PTL

-----------------------------------------------------------------------------
(* Look-ups.                                                               *)

(* The recursive functions of the model, told by what they satisfy.        *)
IsPaths(f) ==
    f = [n \in DOMAIN blocks |-> IF n = Root THEN <<blocks[n].name>>
                                 ELSE Append(f[blocks[n].up], blocks[n].name)]
IsEnclosing(f) ==
    f = [n \in DOMAIN blocks |-> IF n = Root THEN {Root} ELSE f[blocks[n].up] \cup {n}]

(* The recursion of PathTo has a solution: up leads to lower numbers.      *)
LEMMA PathsExist == ASSUME TypeInv PROVE \E f : IsPaths(f)
<1> DEFINE N == Len(blocks)
           Val(f, n) == IF n = Root THEN <<blocks[n].name>>
                        ELSE Append(f[blocks[n].up], blocks[n].name)
           S == {k \in Nat : k <= N => \E f : f = [n \in 1..k |-> Val(f, n)]}
<1>1. N \in Nat /\ DOMAIN blocks = 1..N
    BY Bounds
<1>2. \A n \in 1..N : n # Root => blocks[n].up \in 1..(n - 1)
    BY <1>1 DEF TypeInv, Rooted
<1>3. 0 \in S
    <2> DEFINE f == [n \in 1..0 |-> 0]
    <2>1. f = [n \in 1..0 |-> Val(f, n)]
        OBVIOUS
    <2> QED BY <2>1
<1>4. ASSUME NEW k \in Nat, k \in S PROVE k + 1 \in S
    <2> SUFFICES ASSUME k + 1 <= N PROVE \E f : f = [n \in 1..(k + 1) |-> Val(f, n)]
        OBVIOUS
    <2>1. k <= N
        BY <1>1
    <2>2. PICK f : f = [n \in 1..k |-> Val(f, n)]
        BY <1>4, <2>1
    <2> DEFINE g == [n \in 1..(k + 1) |-> IF n = k + 1 THEN Val(f, n) ELSE f[n]]
    <2>3. ASSUME NEW n \in 1..(k + 1) PROVE g[n] = Val(g, n)
        <3>1. Val(g, n) = Val(f, n)
            <4>1. CASE n = Root
                BY <4>1
            <4>2. CASE n # Root
                <5>1. blocks[n].up \in 1..(n - 1)
                    BY <1>1, <1>2, <4>2
                <5>2. blocks[n].up \in 1..k
                    BY <5>1
                <5>3. g[blocks[n].up] = f[blocks[n].up]
                    BY <5>2
                <5> DEFINE x == g[blocks[n].up]
                           y == f[blocks[n].up]
                <5>4. /\ Val(g, n) = Append(x, blocks[n].name)
                      /\ Val(f, n) = Append(y, blocks[n].name)
                      /\ x = y
                    BY <4>2, <5>3
                <5> HIDE DEF x, y, g
                <5> QED BY <5>4
            <4> QED BY <4>1, <4>2
        <3>2. CASE n = k + 1
            <4>1. g[n] = Val(f, n)
                BY <3>2
            <4> QED BY <3>1, <4>1
        <3>3. CASE n \in 1..k
            <4>1. g[n] = f[n]
                BY <3>3
            <4>2. f[n] = Val(f, n)
                BY <2>2, <3>3
            <4> QED BY <3>1, <4>1, <4>2
        <3> QED BY <3>2, <3>3
    <2>4. g = [n \in 1..(k + 1) |-> g[n]]
        OBVIOUS
    <2> HIDE DEF g, Val
    <2>5. g = [n \in 1..(k + 1) |-> Val(g, n)]
        BY <2>3, <2>4
    <2> QED BY <2>5
<1> HIDE DEF S
<1>5. N \in S
    BY <1>1, <1>3, <1>4, SetInduction
<1>6. \E f : f = [n \in 1..N |-> Val(f, n)]
    BY <1>1, <1>5 DEF S
<1> QED BY <1>1, <1>6 DEF IsPaths

(* So does the one of Enclosing.                                           *)
LEMMA EnclosingExist == ASSUME TypeInv PROVE \E f : IsEnclosing(f)
<1> DEFINE N == Len(blocks)
           Val(f, n) == IF n = Root THEN {Root} ELSE f[blocks[n].up] \cup {n}
           S == {k \in Nat : k <= N => \E f : f = [n \in 1..k |-> Val(f, n)]}
<1>1. N \in Nat /\ DOMAIN blocks = 1..N
    BY Bounds
<1>2. \A n \in 1..N : n # Root => blocks[n].up \in 1..(n - 1)
    BY <1>1 DEF TypeInv, Rooted
<1>3. 0 \in S
    <2> DEFINE f == [n \in 1..0 |-> 0]
    <2>1. f = [n \in 1..0 |-> Val(f, n)]
        OBVIOUS
    <2> QED BY <2>1
<1>4. ASSUME NEW k \in Nat, k \in S PROVE k + 1 \in S
    <2> SUFFICES ASSUME k + 1 <= N PROVE \E f : f = [n \in 1..(k + 1) |-> Val(f, n)]
        OBVIOUS
    <2>1. k <= N
        BY <1>1
    <2>2. PICK f : f = [n \in 1..k |-> Val(f, n)]
        BY <1>4, <2>1
    <2> DEFINE g == [n \in 1..(k + 1) |-> IF n = k + 1 THEN Val(f, n) ELSE f[n]]
    <2>3. ASSUME NEW n \in 1..(k + 1) PROVE g[n] = Val(g, n)
        <3>1. Val(g, n) = Val(f, n)
            <4>1. CASE n = Root
                BY <4>1
            <4>2. CASE n # Root
                <5>1. blocks[n].up \in 1..(n - 1)
                    BY <1>1, <1>2, <4>2
                <5>2. blocks[n].up \in 1..k
                    BY <5>1
                <5>3. g[blocks[n].up] = f[blocks[n].up]
                    BY <5>2
                <5> QED BY <4>2, <5>3
            <4> QED BY <4>1, <4>2
        <3>2. CASE n = k + 1
            <4>1. g[n] = Val(f, n)
                BY <3>2
            <4> QED BY <3>1, <4>1
        <3>3. CASE n \in 1..k
            <4>1. g[n] = f[n]
                BY <3>3
            <4>2. f[n] = Val(f, n)
                BY <2>2, <3>3
            <4> QED BY <3>1, <4>1, <4>2
        <3> QED BY <3>2, <3>3
    <2>4. g = [n \in 1..(k + 1) |-> g[n]]
        OBVIOUS
    <2> HIDE DEF g, Val
    <2>5. g = [n \in 1..(k + 1) |-> Val(g, n)]
        BY <2>3, <2>4
    <2> QED BY <2>5
<1> HIDE DEF S
<1>5. N \in S
    BY <1>1, <1>3, <1>4, SetInduction
<1>6. \E f : f = [n \in 1..N |-> Val(f, n)]
    BY <1>1, <1>5 DEF S
<1> QED BY <1>1, <1>6 DEF IsEnclosing

(* PathTo adds the name of the block to the path of the one around.        *)
LEMMA PathToIs ==
    ASSUME TypeInv, NEW b \in DOMAIN blocks
    PROVE  PathTo(b) = IF b = Root THEN <<blocks[b].name>>
                       ELSE Append(PathTo(blocks[b].up), blocks[b].name)
<1> DEFINE path == CHOOSE f : IsPaths(f)
<1>1. \A n : PathTo(n) = path[n]
    BY DEF PathTo, IsPaths
<1>2. IsPaths(path)
    BY PathsExist
<1> HIDE DEF path
<1>3. path[b] = IF b = Root THEN <<blocks[b].name>> ELSE Append(path[blocks[b].up], blocks[b].name)
    BY <1>2 DEF IsPaths
<1> QED BY <1>1, <1>3

(* Enclosing adds the block to the ones around.                            *)
LEMMA EnclosingIs ==
    ASSUME TypeInv, NEW b \in DOMAIN blocks
    PROVE  Enclosing(b) = IF b = Root THEN {Root} ELSE Enclosing(blocks[b].up) \cup {b}
<1> DEFINE around == CHOOSE f : IsEnclosing(f)
<1>1. \A n : Enclosing(n) = around[n]
    BY DEF Enclosing, IsEnclosing
<1>2. IsEnclosing(around)
    BY EnclosingExist
<1> HIDE DEF around
<1>3. around[b] = IF b = Root THEN {Root} ELSE around[blocks[b].up] \cup {b}
    BY <1>2 DEF IsEnclosing
<1> QED BY <1>1, <1>3
-----------------------------------------------------------------------------

(* The blocks from the file down to a block.                               *)
IsChain(c, b) ==
    /\ c \in Seq(DOMAIN blocks) /\ Len(c) \in Nat /\ Len(c) >= 1
    /\ c[1] = Root /\ c[Len(c)] = b
    /\ \A n \in 2..Len(c) : blocks[c[n]].up = c[n - 1]

NamesOf(c) == [n \in 1..Len(c) |-> blocks[c[n]].name]
MembersOf(c) == {c[n] : n \in 1..Len(c)}

(* From the block of the file to any block there is a chain of blocks,     *)
(* with the names of its path, and these are the ones around it.           *)
LEMMA ChainExists ==
    ASSUME TypeInv, NEW b \in DOMAIN blocks
    PROVE  \E c : IsChain(c, b) /\ PathTo(b) = NamesOf(c) /\ Enclosing(b) = MembersOf(c)
<1> DEFINE Has(n) == \E c : IsChain(c, n) /\ PathTo(n) = NamesOf(c) /\ Enclosing(n) = MembersOf(c)
           S == {k \in Nat : \A n \in 1..k : n \in DOMAIN blocks => Has(n)}
<1>1. DOMAIN blocks = 1..Len(blocks) /\ Len(blocks) \in Nat
    BY Bounds
<1>2. \A n \in DOMAIN blocks : (n = Root => n = 1) /\ (n # Root => blocks[n].up \in 1..(n - 1))
    BY <1>1 DEF TypeInv, Rooted, Root
<1>3. 0 \in S
    OBVIOUS
<1>4. ASSUME NEW k \in Nat, k \in S PROVE k + 1 \in S
    <2> DEFINE n == k + 1
    <2>1. SUFFICES ASSUME n \in DOMAIN blocks PROVE Has(n)
        <3>1. \A m \in 1..(k + 1) : m \in 1..k \/ m = k + 1
            OBVIOUS
        <3> QED BY <1>4, <2>1, <3>1
    <2>2. CASE n = Root
        <3> DEFINE c == <<n>>
        <3>1. /\ c \in Seq(DOMAIN blocks) /\ Len(c) = 1 /\ c[1] = n
            BY <2>1
        <3>2. PathTo(n) = <<blocks[n].name>> /\ Enclosing(n) = {n}
            BY <2>1, <2>2, PathToIs, EnclosingIs
        <3> HIDE DEF c, n
        <3>3. IsChain(c, n)
            BY <2>2, <3>1 DEF IsChain
        <3>4. NamesOf(c) = <<blocks[n].name>>
            BY <3>1 DEF NamesOf
        <3>5. MembersOf(c) = {n}
            BY <3>1 DEF MembersOf
        <3> QED BY <3>2, <3>3, <3>4, <3>5
    <2>3. CASE n # Root
        <3> DEFINE u == blocks[n].up
        <3>1. u \in 1..k /\ u \in DOMAIN blocks
            BY <1>1, <1>2, <2>1, <2>3
        <3>2. PathTo(n) = Append(PathTo(u), blocks[n].name) /\ Enclosing(n) = Enclosing(u) \cup {n}
            BY <2>1, <2>3, PathToIs, EnclosingIs
        <3>3. Has(u)
            BY <1>4, <3>1
        <3>4. PICK c : IsChain(c, u) /\ PathTo(u) = NamesOf(c) /\ Enclosing(u) = MembersOf(c)
            BY <3>3
        <3> DEFINE d == Append(c, n)
                   l == Len(c)
        <3>5. c \in Seq(DOMAIN blocks) /\ l \in Nat /\ l >= 1 /\ c[1] = Root /\ c[l] = u
              /\ \A m \in 2..l : blocks[c[m]].up = c[m - 1]
            BY <3>4 DEF IsChain
        <3>6. d \in Seq(DOMAIN blocks) /\ Len(d) = l + 1 /\ d[l + 1] = n
              /\ \A m \in 1..l : d[m] = c[m]
            BY <2>1, <3>5
        <3>7. blocks[n].up = u
            OBVIOUS
        <3> HIDE DEF d, l, n, u
        <3>8. IsChain(d, n)
            <4>1. ASSUME NEW m \in 2..(l + 1) PROVE blocks[d[m]].up = d[m - 1]
                <5>1. CASE m = l + 1
                    <6>1. m - 1 = l /\ l \in 1..l
                        BY <3>5, <5>1
                    <6> QED BY <3>5, <3>6, <3>7, <5>1, <6>1
                <5>2. CASE m \in 2..l
                    <6>1. m \in 1..l /\ m - 1 \in 1..l
                        BY <3>5, <5>2
                    <6> QED BY <3>5, <3>6, <5>2, <6>1
                <5> QED BY <3>5, <5>1, <5>2
            <4>2. 1 \in 1..l
                BY <3>5
            <4> QED BY <3>5, <3>6, <4>1, <4>2 DEF IsChain
        <3>9. PathTo(n) = NamesOf(d)
            <4>1. PathTo(u) = [m \in 1..l |-> blocks[c[m]].name]
                BY <3>4 DEF NamesOf, l
            <4> DEFINE p == PathTo(u)
                       x == blocks[n].name
            <4>2. p = [m \in 1..l |-> p[m]] /\ \A m \in 1..l : p[m] = blocks[c[m]].name
                BY <4>1
            <4> HIDE DEF p
            <4>3. Len(p) = l /\ Append(p, x) = [m \in 1..(l + 1) |-> IF m = l + 1 THEN x ELSE p[m]]
                <5> HIDE DEF x
                <5> DEFINE V == {p[m] : m \in 1..l} \cup {x}
                <5>1. p \in Seq(V) /\ x \in V
                    <6>1. p \in [1..l -> V] /\ x \in V
                        BY <4>2
                    <6> HIDE DEF V
                    <6> QED BY <3>5, <6>1, SeqDef
                <5> HIDE DEF V
                <5>2. Len(p) = l
                    <6>1. DOMAIN p = 1..l
                        BY <4>2
                    <6>2. DOMAIN p = 1..Len(p) /\ Len(p) \in Nat
                        BY <5>1
                    <6> QED BY <3>5, <6>1, <6>2
                <5>3. Append(p, x) = [m \in 1..(Len(p) + 1) |-> IF m = Len(p) + 1 THEN x ELSE p[m]]
                    <6> DEFINE q == Append(p, x)
                    <6>1. /\ q \in Seq(V) /\ Len(q) = Len(p) + 1 /\ q[Len(p) + 1] = x
                          /\ \A m \in 1..Len(p) : q[m] = p[m]
                        BY <5>1, AppendProperties
                    <6> HIDE DEF q
                    <6>2. q = [m \in 1..(Len(p) + 1) |-> q[m]]
                        BY <6>1
                    <6>3. \A m \in 1..(Len(p) + 1) : q[m] = IF m = Len(p) + 1 THEN x ELSE p[m]
                        BY <5>1, <6>1
                    <6> QED BY <6>2, <6>3 DEF q
                <5> QED BY <5>2, <5>3
            <4>4. NamesOf(d) = [m \in 1..(l + 1) |-> blocks[d[m]].name]
                BY <3>6 DEF NamesOf
            <4>5. \A m \in 1..(l + 1) : blocks[d[m]].name = IF m = l + 1 THEN x ELSE p[m]
                <5>1. \A m \in 1..(l + 1) : m = l + 1 \/ m \in 1..l
                    BY <3>5
                <5> QED BY <3>6, <4>2, <5>1
            <4> QED BY <3>2, <4>3, <4>4, <4>5 DEF p
        <3>10. Enclosing(n) = MembersOf(d)
            <4>1. MembersOf(d) = {d[m] : m \in 1..(l + 1)} /\ MembersOf(c) = {c[m] : m \in 1..l}
                BY <3>6 DEF MembersOf, l
            <4>2. \A m \in 1..(l + 1) : m = l + 1 \/ m \in 1..l
                BY <3>5
            <4>3. l + 1 \in 1..(l + 1) /\ \A m \in 1..l : m \in 1..(l + 1)
                BY <3>5
            <4>4. {d[m] : m \in 1..(l + 1)} = {c[m] : m \in 1..l} \cup {n}
                BY <3>6, <4>2, <4>3
            <4> QED BY <3>2, <3>4, <4>1, <4>4
        <3> QED BY <3>8, <3>9, <3>10
    <2> QED BY <2>2, <2>3
<1> HIDE DEF S
<1>5. \A k \in Nat : k \in S
    BY <1>3, <1>4, SetInduction
<1>6. b \in Nat /\ b \in 1..b
    BY <1>1
<1> QED BY <1>5, <1>6 DEF S

(* Blocks inside come after the blocks around them.                        *)
LEMMA ChainAscends ==
    ASSUME TypeInv, NEW b, NEW c, IsChain(c, b)
    PROVE  /\ \A n \in 1..Len(c) : c[n] \in DOMAIN blocks /\ c[n] \in Nat
           /\ \A n, m \in 1..Len(c) : m < n => c[m] < c[n]
<1> DEFINE l == Len(c)
           S == {k \in Nat : \A n, m \in 1..l : m < n /\ n <= k => c[m] < c[n]}
<1>1. l \in Nat /\ \A n \in 1..l : c[n] \in DOMAIN blocks /\ c[n] \in Nat
    BY Bounds DEF IsChain
<1>2. \A n \in 2..l : c[n - 1] < c[n]
    <2> SUFFICES ASSUME NEW n \in 2..l PROVE c[n - 1] < c[n]
        OBVIOUS
    <2>1. n \in 1..l /\ n - 1 \in 1..l
        BY <1>1
    <2>2. blocks[c[n]].up = c[n - 1]
        BY DEF IsChain
    <2>3. blocks[c[n]].up \in 0..(c[n] - 1)
        BY <1>1, <2>1 DEF TypeInv, Rooted
    <2> DEFINE x == c[n]
               y == c[n - 1]
    <2>4. x \in Nat /\ y \in 0..(x - 1)
        BY <1>1, <2>1, <2>2, <2>3
    <2> HIDE DEF x, y
    <2>5. y < x
        BY <2>4
    <2> QED BY <2>5 DEF x, y
<1>3. 0 \in S
    BY <1>1
<1>4. ASSUME NEW k \in Nat, k \in S PROVE k + 1 \in S
    <2> SUFFICES ASSUME NEW n \in 1..l, NEW m \in 1..l, m < n, n = k + 1 PROVE c[m] < c[n]
        BY <1>1, <1>4
    <2>1. n \in 2..l /\ n - 1 \in 1..l /\ n - 1 = k
        BY <1>1
    <2>2. c[n - 1] < c[n]
        BY <1>2, <2>1
    <2>3. CASE m = n - 1
        BY <2>2, <2>3
    <2>4. CASE m < n - 1
        <3>1. c[m] < c[n - 1]
            BY <1>4, <2>1, <2>4
        <3> QED BY <1>1, <2>1, <2>2, <3>1
    <2> QED BY <1>1, <2>3, <2>4
<1>5. \A n, m \in 1..l : m < n => c[m] < c[n]
    <2> HIDE DEF S
    <2>1. l \in S
        BY <1>1, <1>3, <1>4, SetInduction
    <2> QED BY <1>1, <2>1 DEF S
<1> QED BY <1>1, <1>5

(* traverse goes down a chain of first children to its end.                *)
IsDescent(at, path) ==
    at = [n \in 0..Len(path) |->
              IF n = 0 THEN NoBlock
              ELSE IF n = 1 THEN FirstChild(NoBlock, path[1])
              ELSE IF at[n - 1] = NoBlock THEN NoBlock
              ELSE FirstChild(at[n - 1], path[n])]

(* Traverse follows a chain of blocks in which each is the first of its    *)
(* name in the one before.                                                 *)
LEMMA TraverseIs ==
    ASSUME NEW path, NEW c, Len(path) \in Nat, Len(path) >= 1,
           \A n \in 1..Len(path) : c[n] # NoBlock,
           c[1] = FirstChild(NoBlock, path[1]),
           \A n \in 2..Len(path) : c[n] = FirstChild(c[n - 1], path[n])
    PROVE  Traverse(path) = c[Len(path)]
<1> DEFINE l == Len(path)
           at == CHOOSE f : IsDescent(f, path)
           w == [n \in 0..l |-> IF n = 0 THEN NoBlock ELSE c[n]]
           reached == {n \in 0..l : \A m \in 1..n : at[m] # NoBlock}
<1>1. Traverse(path) = at[Largest(reached)]
    BY DEF Traverse, IsDescent
<1>2. IsDescent(w, path)
    <2>1. ASSUME NEW n \in 0..l
          PROVE  w[n] = IF n = 0 THEN NoBlock
                        ELSE IF n = 1 THEN FirstChild(NoBlock, path[1])
                        ELSE IF w[n - 1] = NoBlock THEN NoBlock
                        ELSE FirstChild(w[n - 1], path[n])
        <3>1. CASE n = 0
            BY <3>1
        <3>2. CASE n = 1
            BY <3>2
        <3>3. CASE n \in 2..l
            <4>1. n - 1 \in 1..l /\ n # 0 /\ n # 1 /\ n - 1 \in 0..l /\ n - 1 # 0
                BY <3>3
            <4>2. w[n] = c[n] /\ w[n - 1] = c[n - 1] /\ w[n - 1] # NoBlock
                BY <4>1
            <4>3. c[n] = FirstChild(c[n - 1], path[n])
                BY <3>3
            <4> HIDE DEF w
            <4> QED BY <4>1, <4>2, <4>3
        <3> QED BY <3>1, <3>2, <3>3
    <2>2. w = [n \in 0..l |-> w[n]]
        OBVIOUS
    <2> HIDE DEF w
    <2> QED BY <2>1, <2>2 DEF IsDescent
<1>3. IsDescent(at, path)
    <2> HIDE DEF w
    <2> QED BY <1>2
<1> HIDE DEF at
<1> DEFINE S == {k \in Nat : k <= l /\ k # 0 => at[k] = c[k]}
<1>4. 0 \in S
    OBVIOUS
<1>5. ASSUME NEW k \in Nat, k \in S PROVE k + 1 \in S
    <2> SUFFICES ASSUME k + 1 <= l PROVE at[k + 1] = c[k + 1]
        OBVIOUS
    <2> DEFINE n == k + 1
    <2>1. n \in 0..l /\ n # 0 /\ n - 1 = k /\ n \in 1..l
        OBVIOUS
    <2>2. at[n] = IF n = 0 THEN NoBlock
                  ELSE IF n = 1 THEN FirstChild(NoBlock, path[1])
                  ELSE IF at[n - 1] = NoBlock THEN NoBlock
                  ELSE FirstChild(at[n - 1], path[n])
        BY <1>3, <2>1 DEF IsDescent
    <2>3. CASE n = 1
        BY <2>1, <2>2, <2>3
    <2>4. CASE n # 1
        <3>1. k \in 1..l /\ n \in 2..l
            BY <2>4
        <3>2. at[k] = c[k] /\ c[k] # NoBlock /\ c[n] = FirstChild(c[n - 1], path[n])
            BY <1>5, <3>1
        <3> HIDE DEF n
        <3> QED BY <2>1, <2>2, <2>4, <3>2
    <2> QED BY <2>3, <2>4
<1> HIDE DEF S
<1>6. \A k \in Nat : k \in S
    BY <1>4, <1>5, SetInduction
<1>7. \A k \in 1..l : at[k] = c[k]
    BY <1>6 DEF S
<1>8. Largest(reached) = l
    <2>1. l \in reached /\ reached \in SUBSET Nat /\ \A x \in reached : x <= l /\ x \in Nat
        BY <1>7
    <2>2. l \in Nat
        OBVIOUS
    <2> DEFINE r == Largest(reached)
    <2> HIDE DEF reached, l
    <2>3. r \in reached /\ l <= r
        BY <2>1, <2>2, LargestIs
    <2>4. r <= l /\ r \in Nat
        BY <2>1, <2>3
    <2> HIDE DEF r
    <2>5. r = l
        BY <2>2, <2>3, <2>4
    <2> QED BY <2>5 DEF r
<1>9. at[l] = c[l]
    BY <1>7
<1> QED BY <1>1, <1>8, <1>9

(* A block that is the first of its name is the one found by it.           *)
LEMMA FirstChildIs ==
    ASSUME TypeInv, NEW b \in DOMAIN blocks, FirstOfItsName(b)
    PROVE  FirstChild(blocks[b].up, blocks[b].name) = b
<1> DEFINE S == Children(blocks[b].up, blocks[b].name)
<1>1. b \in S /\ S \in SUBSET Nat /\ \A x \in S : b <= x
    BY Bounds DEF Children, FirstOfItsName
<1>2. b \in Nat
    BY Bounds
<1> HIDE DEF S
<1>3. Smallest(S) \in S /\ Smallest(S) <= b /\ b <= Smallest(S)
    BY <1>1, SmallestIs
<1>4. Smallest(S) = b
    <2> DEFINE x == Smallest(S)
    <2>1. x \in Nat /\ x <= b /\ b <= x
        BY <1>1, <1>3
    <2> HIDE DEF x
    <2>2. x = b
        BY <1>2, <2>1
    <2> QED BY <2>2 DEF x
<1> QED BY <1>1, <1>4 DEF S, FirstChild

(* Along the path of a block traverse finds the blocks around it.          *)
LEMMA TraversesChain ==
    ASSUME TypeInv, NEW b \in DOMAIN blocks, NEW c, IsChain(c, b),
           \A n \in 1..Len(c) : FirstOfItsName(c[n]), NEW n \in 1..Len(c)
    PROVE  Traverse(SubSeq(NamesOf(c), 1, n)) = c[n]
<1> DEFINE path == SubSeq(NamesOf(c), 1, n)
           l == Len(c)
<1>1. l \in Nat /\ n \in 1..l /\ n \in Nat /\ \A m \in 1..l : c[m] \in DOMAIN blocks /\ c[m] # 0
    BY ChainAscends, Bounds DEF IsChain
<1>2. Len(path) = n /\ \A m \in 1..n : path[m] = blocks[c[m]].name
    <2> DEFINE p == NamesOf(c)
    <2>1. p = [m \in 1..l |-> blocks[c[m]].name]
        BY DEF NamesOf
    <2>2. p \in Seq({p[m] : m \in 1..l}) /\ Len(p) = l
        <3> DEFINE V == {p[m] : m \in 1..l}
        <3>1. p \in [1..l -> V]
            BY <2>1
        <3>2. DOMAIN p = 1..l
            BY <2>1
        <3> HIDE DEF V, p, l
        <3>3. p \in Seq(V)
            BY <1>1, <3>1, SeqDef
        <3>4. Len(p) = l
            <4>1. Len(p) \in Nat /\ DOMAIN p = 1..Len(p)
                BY <3>3
            <4> QED BY <1>1, <3>2, <4>1
        <3> QED BY <3>3, <3>4 DEF V
    <2>3. \A m \in 1..l : p[m] = blocks[c[m]].name
        BY <2>1
    <2> HIDE DEF p
    <2>4. /\ Len(SubSeq(p, 1, n)) = n
          /\ \A m \in 1..n : SubSeq(p, 1, n)[m] = p[m]
        <3> HIDE DEF l
        <3> DEFINE V == {p[m] : m \in 1..l}
        <3>1. p \in Seq(V) /\ Len(p) = l
            BY <2>2
        <3> HIDE DEF V
        <3> QED BY <1>1, <3>1
    <2> QED BY <1>1, <2>3, <2>4 DEF p
<1> HIDE DEF path, l
<1>3. c[1] = FirstChild(NoBlock, path[1])
    <2>1. 1 \in 1..n /\ 1 \in 1..l
        BY <1>1
    <2>2. c[1] = Root /\ Root \in DOMAIN blocks
        BY <1>1, <2>1 DEF IsChain
    <2>3. blocks[Root].up = 0
        BY <2>2 DEF TypeInv, Rooted
    <2>4. FirstOfItsName(Root)
        BY <2>1, <2>2 DEF l
    <2>5. path[1] = blocks[Root].name
        BY <1>2, <2>1, <2>2
    <2> QED BY <2>2, <2>3, <2>4, <2>5, FirstChildIs DEF NoBlock
<1>4. \A m \in 2..n : c[m] = FirstChild(c[m - 1], path[m])
    <2> SUFFICES ASSUME NEW m \in 2..n PROVE c[m] = FirstChild(c[m - 1], path[m])
        OBVIOUS
    <2>1. m \in 1..n /\ m \in 1..l /\ m \in 2..l
        BY <1>1
    <2>2. blocks[c[m]].up = c[m - 1] /\ path[m] = blocks[c[m]].name
        BY <1>2, <2>1 DEF IsChain, l
    <2>3. c[m] \in DOMAIN blocks /\ FirstOfItsName(c[m])
        BY <1>1, <2>1 DEF l
    <2> QED BY <2>2, <2>3, FirstChildIs
<1>5. /\ Len(path) \in Nat /\ Len(path) >= 1
      /\ \A m \in 1..Len(path) : c[m] # NoBlock
      /\ \A m \in 2..Len(path) : c[m] = FirstChild(c[m - 1], path[m])
    BY <1>1, <1>2, <1>4 DEF NoBlock
<1>6. Traverse(path) = c[Len(path)]
    BY <1>3, <1>5, TraverseIs
<1> QED BY <1>2, <1>6 DEF path

(* A look-up from a block whose name, and the names around, no sibling had *)
(* before, finds the value of the innermost block around it that has one.  *)
LEMMA LooksUp ==
    ASSUME TypeInv, NEW b \in DOMAIN blocks, NEW o,
           \A n \in Enclosing(b) : FirstOfItsName(n)
    PROVE  LET giving == {n \in Enclosing(b) : o \in DOMAIN blocks[n].options}
           IN AttrValue(o, PathTo(b)) =
                  {blocks[n].options[o] : n \in {m \in giving : \A k \in giving : k <= m}}
<1> DEFINE giving == {n \in Enclosing(b) : o \in DOMAIN blocks[n].options}
           last == {m \in giving : \A k \in giving : k <= m}
<1>1. PICK c : IsChain(c, b) /\ PathTo(b) = NamesOf(c) /\ Enclosing(b) = MembersOf(c)
    BY ChainExists
<1> DEFINE l == Len(c)
           path == PathTo(b)
           found == {n \in 1..l : o \in DOMAIN blocks[c[n]].options}
<1>2. /\ l \in Nat /\ \A n \in 1..l : c[n] \in DOMAIN blocks /\ c[n] \in Nat /\ c[n] # 0
      /\ \A n, m \in 1..l : m < n => c[m] < c[n]
    <2>1. l \in Nat
        BY <1>1 DEF IsChain
    <2>2. /\ \A n \in 1..l : c[n] \in DOMAIN blocks
          /\ \A n, m \in 1..l : m < n => c[m] < c[n]
        BY <1>1, ChainAscends
    <2>3. DOMAIN blocks = 1..Len(blocks) /\ Len(blocks) \in Nat
        BY Bounds
    <2> HIDE DEF l
    <2>4. \A n \in 1..l : c[n] \in Nat /\ c[n] # 0
        BY <2>2, <2>3
    <2> QED BY <2>1, <2>2, <2>4
<1>3. \A n \in 1..l : Traverse(SubSeq(path, 1, n)) = c[n]
    <2>1. \A n \in 1..l : FirstOfItsName(c[n])
        BY <1>1 DEF MembersOf
    <2> QED BY <1>1, <2>1, TraversesChain
<1>4. Len(path) = l
    <2>1. path = [m \in 1..l |-> blocks[c[m]].name]
        BY <1>1 DEF NamesOf
    <2> DEFINE V == {path[m] : m \in 1..l}
    <2>2. path \in [1..l -> V] /\ DOMAIN path = 1..l
        BY <2>1
    <2> HIDE DEF V, path, l
    <2>3. path \in Seq(V)
        BY <1>2, <2>2, SeqDef
    <2>4. Len(path) \in Nat /\ DOMAIN path = 1..Len(path)
        BY <2>3
    <2> QED BY <1>2, <2>2, <2>4
<1> DEFINE there == {n \in Scopes(path) :
                        LET a == Traverse(SubSeq(path, 1, n))
                        IN a # NoBlock /\ o \in DOMAIN blocks[a].options}
<1>5. there = found
    <2>1. Scopes(path) = 1..l
        BY <1>4 DEF Scopes
    <2> QED BY <1>2, <1>3, <2>1 DEF NoBlock
<1>6. AttrValue(o, path) = IF there = {} THEN {}
                           ELSE {blocks[Traverse(SubSeq(path, 1, Largest(there)))].options[o]}
    BY DEF AttrValue
<1>7. giving = {c[n] : n \in found}
    BY <1>1 DEF MembersOf
<1>8. found \in SUBSET Nat /\ found \subseteq 1..l
    OBVIOUS
<1> HIDE DEF giving, found, there, path, l
<1>9. CASE found = {}
    <2>1. last = {}
        BY <1>7, <1>9
    <2> QED BY <1>5, <1>6, <1>9, <2>1 DEF giving, path
<1>10. CASE found # {}
    <2> DEFINE n == Largest(found)
    <2>1. n \in found /\ \A m \in found : m <= n
        BY <1>2, <1>8, <1>10, LargestIs
    <2> HIDE DEF n
    <2>2. c[n] \in giving /\ \A m \in found : c[m] <= c[n]
        <3>1. ASSUME NEW m \in found PROVE c[m] <= c[n]
            <4>1. m \in 1..l /\ n \in 1..l /\ m <= n
                BY <1>8, <2>1
            <4>2. CASE m = n
                BY <1>2, <4>1, <4>2
            <4>3. CASE m < n
                BY <1>2, <4>1, <4>3
            <4> QED BY <4>1, <4>2, <4>3
        <3> QED BY <1>7, <2>1, <3>1
    <2>3. last = {c[n]}
        <3>1. c[n] \in last
            BY <1>7, <2>2
        <3>2. ASSUME NEW x \in last PROVE x = c[n]
            <4>1. x \in giving /\ c[n] <= x
                BY <2>2, <3>2
            <4>2. PICK m \in found : x = c[m]
                BY <1>7, <4>1
            <4>3. x <= c[n] /\ x \in Nat /\ c[n] \in Nat
                BY <1>2, <1>8, <2>1, <2>2, <4>2
            <4> QED BY <4>1, <4>3
        <3> HIDE DEF last
        <3> QED BY <3>1, <3>2
    <2>4. AttrValue(o, path) = {blocks[c[n]].options[o]}
        <3>1. Traverse(SubSeq(path, 1, n)) = c[n]
            BY <1>3, <1>8, <2>1
        <3> QED BY <1>5, <1>6, <1>10, <3>1 DEF n
    <2>5. {blocks[m].options[o] : m \in last} = {blocks[c[n]].options[o]}
        BY <2>3
    <2> QED BY <2>4, <2>5 DEF giving, path
<1> QED BY <1>9, <1>10

(* Options hold in the blocks inside the one they are given in, unless they*)
(* are given again there.                                                  *)
THEOREM OptionsAreInherited == Spec => []InheritsFromEnclosing
<1>1. ParserInv => InheritsFromEnclosing
    <2> SUFFICES ASSUME ParserInv, NEW b \in DOMAIN blocks, NEW o \in Options,
                        \A n \in Enclosing(b) : FirstOfItsName(n)
                 PROVE  LET giving == {n \in Enclosing(b) : o \in DOMAIN blocks[n].options}
                        IN AttrValue(o, PathTo(b)) =
                               {blocks[n].options[o] : n \in {m \in giving : \A k \in giving : k <= m}}
        BY DEF InheritsFromEnclosing
    <2> QED BY LooksUp DEF ParserInv
<1> QED BY <1>1, Invariant, PTL
=============================================================================
