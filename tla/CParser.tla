------------------------------- MODULE CParser -------------------------------
(***************************************************************************)
(* cparser.py: the parser of configuration files, and how a value is       *)
(* looked up in what it read.                                              *)
(*                                                                         *)
(* A file is the sequence of tokens that Scanner.load finds in it. A call  *)
(* of load_section is a block of the sequence "blocks", made when the call *)
(* begins; the calls that have not returned are the current block and      *)
(* those around it. A step is one round of the parser's machine, the       *)
(* states that only look at a token taken together with the next.          *)
(*                                                                         *)
(* An operator marked "mutant" is a plausible bug in the operator defined  *)
(* after it; nothing uses it here.                                         *)
(***************************************************************************)
EXTENDS Integers, Sequences, FiniteSets

CONSTANTS
    Files,     \* files that may be read
    Options,   \* names of options
    Words,     \* other words
    Octets     \* the string that stands for a word of the form 0x...

ASSUME OctetsAssumption == DOMAIN Octets \subseteq Words

Begin == [symbol |-> "begin", text |-> "{"]
End == [symbol |-> "end", text |-> "}"]
Option(o) == [symbol |-> "option", text |-> o]
Word(w) == [symbol |-> "word", text |-> w]

Tokens == {Option(o) : o \in Options} \cup {Word(w) : w \in Words} \cup {Begin, End}
ASSUME FilesAssumption == Files \subseteq Seq(Tokens)

VARIABLES
    tokens,    \* tokens of the file
    index,     \* how many of them have been read
    blocks,    \* the objects, in the order in which their sections begin
    current,   \* number of the block that is being read
    state      \* state of the machine, or how parse() ended

vars == <<tokens, index, blocks, current, state>>

Root == 1
Ended == {"parsed", "SnmpfwdError", "IndexError"}

Names == Words \cup {"", "{"}
Values == Words \cup {Octets[w] : w \in DOMAIN Octets}

Block(b) ==
    /\ DOMAIN b = {"name", "up", "options"}
    /\ b.name \in Names
    /\ DOMAIN b.options \subseteq Options
    /\ \A o \in DOMAIN b.options : b.options[o] \in Seq(Values)

TypeOK ==
    /\ tokens \in Seq(Tokens)
    /\ index \in 0..Len(tokens)
    /\ \A b \in DOMAIN blocks :
           Block(blocks[b]) /\ blocks[b].up \in 0..(b - 1) /\ (blocks[b].up = 0 <=> b = Root)
    /\ current \in DOMAIN blocks
    /\ state \in {"FSM_START", "FSM_CHILD_END"} \cup Ended

-----------------------------------------------------------------------------
(* Parser *)

Is(i, symbol) == i \in DOMAIN tokens /\ tokens[i].symbol = symbol
AtEof(i) == i > Len(tokens)

NoOptions == [o \in {} |-> <<>>]

Init ==
    /\ tokens \in Files
    /\ index = 0
    /\ blocks = <<[name |-> "", up |-> 0, options |-> NoOptions]>>
    /\ current = Root
    /\ state = "FSM_START"

Raise(error) == state' = error /\ UNCHANGED <<tokens, index, blocks, current>>

(* load_section returns, to parse() or to the call for the block around.   *)
Return ==
    /\ IF current = Root
       THEN state' = "parsed" /\ UNCHANGED current
       ELSE state' = "FSM_CHILD_END" /\ current' = blocks[current].up
    /\ UNCHANGED tokens

(* At the end of the file or at a "}", which stays to be read.             *)
SectionEnd ==
    /\ state = "FSM_START"
    /\ AtEof(index + 1) \/ Is(index + 1, "end")
    /\ Return
    /\ UNCHANGED <<index, blocks>>

ChildEndTwice == index + 2   \* mutant: the token after it is swallowed
ChildEndRead == index + 1

ChildEnd ==
    /\ state = "FSM_CHILD_END"
    /\ IF Is(index + 1, "end")
       THEN /\ index' = ChildEndRead
            /\ state' = "FSM_START"
            /\ UNCHANGED <<tokens, blocks, current>>
       ELSE Raise("SnmpfwdError")

(* Whatever stands where neither an option nor a "}" does is the name of a *)
(* section, a "{" included.                                                *)
Section ==
    /\ state = "FSM_START"
    /\ Is(index + 1, "word") \/ Is(index + 1, "begin")
    /\ IF Is(index + 2, "begin")
       THEN /\ blocks' = Append(blocks, [name |-> tokens[index + 1].text, up |-> current,
                                         options |-> NoOptions])
            /\ current' = Len(blocks) + 1
            /\ index' = index + 2
            /\ UNCHANGED <<tokens, state>>
       ELSE Raise("SnmpfwdError")

(* The words after an option, of which the last is the name of a section   *)
(* when a "{" follows it.                                                  *)
Run(i) == CHOOSE n \in 0..Len(tokens) :
              ~Is(i + n, "word") /\ \A k \in i..(i + n - 1) : Is(k, "word")
Kept(i) == IF Is(i + Run(i), "begin") THEN Run(i) - 1 ELSE Run(i)

Value(w) == IF w \in DOMAIN Octets THEN Octets[w] ELSE w

ValuesAndName(i) == [k \in 1..Run(i) |-> Value(tokens[i + k - 1].text)]  \* mutant: no del
ValuesFrom(i) == [k \in 1..Kept(i) |-> Value(tokens[i + k - 1].text)]

Given(o, values) ==
    blocks' = [blocks EXCEPT ![current].options =
                   [x \in DOMAIN @ \cup {o} |-> IF x = o THEN values ELSE @[x]]]

OptionTwice(o) == FALSE   \* mutant: the last one of several options counts
Occurred(o) == o \in DOMAIN blocks[current].options

ReadOption ==
    /\ state = "FSM_START"
    /\ Is(index + 1, "option")
    /\ LET o == tokens[index + 1].text
           first == index + 2
           next == first + Run(first)
       IN \/ Occurred(o) /\ Raise("SnmpfwdError")
          \/ ~Occurred(o) /\ next = first /\ Is(next, "begin") /\ Raise("IndexError")
          \/ /\ ~Occurred(o) /\ ~(next = first /\ Is(next, "begin"))
             /\ Given(o, ValuesFrom(first))
             /\ index' = index + 1 + Kept(first)
             /\ IF AtEof(next)
                THEN Return
                ELSE UNCHANGED <<tokens, current, state>>

Next == SectionEnd \/ ChildEnd \/ Section \/ ReadOption

Spec == Init /\ [][Next]_vars

-----------------------------------------------------------------------------
(* Config *)

(* A path of getPathsToAttr: the names of the blocks around a block, and   *)
(* its own.                                                                *)
PathTo(b) ==
    LET path[n \in DOMAIN blocks] ==
            IF n = Root THEN <<blocks[n].name>>
                        ELSE Append(path[blocks[n].up], blocks[n].name)
    IN path[b]

Smallest(S) == CHOOSE x \in S : \A y \in S : x <= y
Largest(S) == CHOOSE x \in S : \A y \in S : y <= x

Children(b, name) == {c \in DOMAIN blocks : blocks[c].up = b /\ blocks[c].name = name}

(* traverse: as far along a path as there are blocks, along the first of   *)
(* several of the same name.                                               *)
NoBlock == 0
LastChild(b, name) == IF Children(b, name) = {} THEN NoBlock ELSE Largest(Children(b, name))  \* mutant
FirstChild(b, name) == IF Children(b, name) = {} THEN NoBlock ELSE Smallest(Children(b, name))

Traverse(path) ==
    LET at[n \in 0..Len(path)] ==
            IF n = 0 THEN NoBlock
            ELSE IF n = 1 THEN FirstChild(NoBlock, path[1])
            ELSE IF at[n - 1] = NoBlock THEN NoBlock
            ELSE FirstChild(at[n - 1], path[n])
    IN at[Largest({n \in 0..Len(path) : \A m \in 1..n : at[m] # NoBlock})]

(* getAttrValue: the scope shrinks until its block has the attribute.      *)
Scopes(path) == 1..Len(path)

(* The value as the only element of a set, or no value.                    *)
AttrValue(attr, path) ==
    LET found == {n \in Scopes(path) :
                      LET b == Traverse(SubSeq(path, 1, n))
                      IN b # NoBlock /\ attr \in DOMAIN blocks[b].options}
    IN IF found = {} THEN {}
       ELSE {blocks[Traverse(SubSeq(path, 1, Largest(found)))].options[attr]}

-----------------------------------------------------------------------------
(* What a file says, told from its text alone.                             *)

Count(symbol, i) == Cardinality({k \in 1..i : Is(k, symbol)})
Depth(i) == Count("begin", i) - Count("end", i)

(* The file up to a "}" that closes nothing.                               *)
Extent ==
    LET surplus == {i \in DOMAIN tokens : Depth(i) < 0}
    IN IF surplus = {} THEN Len(tokens) ELSE Smallest(surplus) - 1

(* Where the block around a token begins, 0 for the file.                  *)
Around(i) ==
    LET open == {j \in 1..(i - 1) : Is(j, "begin") /\ \A k \in j..(i - 1) : Depth(k) >= Depth(j)}
    IN IF open = {} THEN 0 ELSE Largest(open)

BlockAt(i) == 1 + Count("begin", i)

(* The words from an option up to a token.                                 *)
OptionOf(i) == {j \in 1..(i - 1) : Is(j, "option") /\ \A k \in (j + 1)..i : Is(k, "word")}

WrittenAt(i) == {k \in DOMAIN tokens : i \in OptionOf(k) /\ ~Is(k + 1, "begin")}

OptionsIn(i) == {k \in 1..Extent : Is(k, "option") /\ Around(k) = i}

WellFormed ==
    /\ Depth(Extent) = 0
    /\ \A i \in 1..Extent :
           /\ Is(i, "begin") => Is(i - 1, "word")
           /\ Is(i, "word") => OptionOf(i) # {} \/ (Is(i + 1, "begin") /\ ~Is(i - 1, "word"))
           /\ Is(i, "option") =>
                  \A k \in OptionsIn(Around(i)) : tokens[k] = tokens[i] => k = i

(* No "{" where a name is expected, which the parser takes for one.        *)
BlocksNamed == \A i \in DOMAIN tokens : Is(i, "begin") => Is(i - 1, "word") \/ Is(i - 1, "option")

-----------------------------------------------------------------------------
(* Safety.                                                                 *)

(* Of the files in which no "{" is taken for the name of a block, the      *)
(* parser accepts those whose every block is named and closed, whose every *)
(* word belongs to an option or names a block, and that give no option     *)
(* twice in a block, and no others of these; a file is read up to a "}"    *)
(* that closes nothing.                                                    *)
AcceptsWellFormedOnly ==
    BlocksNamed =>
        /\ state = "parsed" => WellFormed /\ index = Extent
        /\ state \in {"SnmpfwdError", "IndexError"} => ~WellFormed

(* What was read is what stands in the file: a block for each "{", with    *)
(* the name before it, in the block around it; and in each block the       *)
(* options written directly in it, with the words after them except one    *)
(* that names a block.                                                     *)
ReadsAsWritten ==
    BlocksNamed /\ state = "parsed" =>
        /\ Len(blocks) = BlockAt(Extent)
        /\ \A i \in {j \in 1..Extent : Is(j, "begin")} :
               /\ blocks[BlockAt(i)].name = tokens[i - 1].text
               /\ blocks[BlockAt(i)].up = BlockAt(Around(i))
        /\ \A i \in {0} \cup {j \in 1..Extent : Is(j, "begin")} :
               LET options == blocks[BlockAt(i)].options
               IN /\ DOMAIN options = {tokens[k].text : k \in OptionsIn(i)}
                  /\ \A k \in OptionsIn(i) :
                         options[tokens[k].text]
                             = [n \in 1..Cardinality(WrittenAt(k)) |-> Value(tokens[k + n].text)]

(* An option given in a block holds in it and in all blocks inside, unless *)
(* it is given there again: along the path of a block, getAttrValue finds  *)
(* the value of the innermost block around it that has one. That goes for  *)
(* blocks whose name, and the names around, no sibling had before.         *)
Enclosing(b) ==
    LET around[n \in DOMAIN blocks] ==
            IF n = Root THEN {Root} ELSE around[blocks[n].up] \cup {n}
    IN around[b]
FirstOfItsName(b) == \A c \in Children(blocks[b].up, blocks[b].name) : b <= c

InheritsFromEnclosing ==
    state = "parsed" =>
        \A b \in DOMAIN blocks, o \in Options :
            LET giving == {n \in Enclosing(b) : o \in DOMAIN blocks[n].options}
            IN (\A n \in Enclosing(b) : FirstOfItsName(n)) =>
                   AttrValue(o, PathTo(b)) =
                       {blocks[n].options[o] : n \in {m \in giving : \A k \in giving : k <= m}}
=============================================================================
