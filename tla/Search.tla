------------------------------- MODULE Search -------------------------------
(***************************************************************************)
(* Search expressions: BuildEntries and PackRequest of proto/search.go.    *)
(* The first reads the query of the user and inserts the ANDs that are     *)
(* left out, the second turns the infix expression into the prefix form    *)
(* the server wants, walking it from its end with a stack of operators.    *)
(*                                                                         *)
(* The query comes in pieces: a word or an operator's name, a space, a     *)
(* parenthesis, a quotation mark.  What the words are is left out; each is *)
(* told apart by its number.  Length limits are left out.                  *)
(*                                                                         *)
(* What is between quotation marks belongs to a word.  The code reads it   *)
(* so except for parentheses and the names of operators, which it takes    *)
(* for what they are without the quotation marks (search.go:359-365 and    *)
(* 334-343): two ghosts keep the query as it is written and as it is read. *)
(***************************************************************************)
EXTENDS Integers, Sequences, FiniteSets, SequencesExt

CONSTANTS
  Names,      \* the names of operators the user types
  Filters,    \* what a search may be restricted by besides the query
  MaxTokens   \* bound on the words, operators and parentheses of a query

ASSUME SearchAssumption ==
  /\ Names \subseteq {"AND", "OR", "NOT"}
  /\ Filters \subseteq {"none", "type", "folder"}

VARIABLES
  phase,     \* reading, packing, done, failed
  query,     \* for the properties: the tokens as they are written
  tokens,    \* for the properties: the tokens as they are read, without inserted ANDs
  item,      \* the item being read: "none", the name of an operator, or "word"
  said,      \* for the properties: the item as it is written
  verbatim,  \* inside quotation marks
  entries,   \* result of BuildEntries
  next,      \* the entry PackRequest handles next
  stack,     \* operators_stack
  request    \* result of PackRequest

vars == <<phase, query, tokens, item, said, verbatim, entries, next, stack, request>>

Word(n)     == [kind |-> "word", name |-> "word", n |-> n]
Operator(x) == [kind |-> "operator", name |-> x, n |-> 0]
Paren(x)    == [kind |-> "paren", name |-> x, n |-> 0]
Open  == Paren("open")
Close == Paren("close")
And   == Operator("AND")

IsWord(x)     == x.kind = "word"
IsOperator(x) == x.kind = "operator"
Words(s)      == {i \in DOMAIN s : IsWord(s[i])}

----------------------------------------------------------------------------
\* addOperand inserts an AND where nothing but juxtaposition joins two terms.
\* Mutant: nothing is inserted between a word and a parenthesis.
NeedsAndBetweenWords(last, x) ==
  (IsWord(last) \/ last = Close) /\ IsWord(x)
NeedsAnd(last, x) == (IsWord(last) \/ last = Close) /\ (IsWord(x) \/ x = Open)

addOperand(dst, x) ==
  IF dst # <<>> /\ NeedsAnd(Last(dst), x) THEN dst \o <<And, x>> ELSE Append(dst, x)

\* The entries of the parameters before the query.
FilterEntries(filter) ==
  CASE filter = "none"   -> <<>>
    [] filter = "type"   -> <<Word(1)>>
    [] filter = "folder" -> <<Open, Word(1), Operator("NOT"), Word(2), Close>>

Token(x, n) == IF x = "word" THEN Word(n + 1) ELSE Operator(x)

\* The token, if any, that ends behind the tokens s.
Ended(x, s) == IF x = "none" THEN <<>> ELSE <<Token(x, Cardinality(Words(s)))>>

Init ==
  /\ phase = "reading"
  /\ \E filter \in Filters : entries = FilterEntries(filter)
  /\ query = entries /\ tokens = entries
  /\ item = "none" /\ said = "none" /\ verbatim = FALSE
  /\ next = 0 /\ stack = <<>> /\ request = <<>>

\* A character that is none of those below, up to the end of a word.
ReadItem(x) ==
  /\ phase = "reading" /\ Len(tokens) < MaxTokens
  /\ item' = IF item = "none" THEN x ELSE "word"
  /\ said' = IF said = "none" /\ ~verbatim THEN x ELSE "word"
  /\ UNCHANGED <<phase, query, tokens, verbatim, entries, next, stack, request>>

\* "boolean operator at the beginnig of the search expression", "two boolean
\* operators in a row"
\* Mutant: the second is not looked for.
MisplacedFirstOnly(s) == IsOperator(Last(s)) /\ Len(s) = 1
Misplaced(s) ==
  IsOperator(Last(s)) /\ (Len(s) = 1 \/ IsOperator(s[Len(s) - 1]))

\* A space or a parenthesis ends the item before it.
ReadSeparator(c) ==
  LET read == Ended(item, tokens)
      s    == IF item = "none" THEN entries ELSE addOperand(entries, read[1])
      p    == IF c = "space" THEN <<>> ELSE <<Paren(c)>>
  IN  /\ phase = "reading" /\ ~verbatim /\ Len(tokens) < MaxTokens
      /\ item' = "none" /\ said' = "none"
      /\ IF item # "none" /\ Misplaced(s)
         THEN /\ phase' = "failed" /\ entries' = s
              /\ tokens' = tokens \o read /\ query' = query \o Ended(said, query)
         ELSE /\ entries' = IF p = <<>> THEN s ELSE addOperand(s, p[1])
              /\ tokens' = tokens \o read \o p
              /\ query' = query \o Ended(said, query) \o p
              /\ UNCHANGED phase
      /\ UNCHANGED <<verbatim, next, stack, request>>

\* Between quotation marks it is part of the item; a parenthesis is also added
\* to the entries, before that item.
ReadQuotedSeparator(c) ==
  /\ phase = "reading" /\ verbatim /\ Len(tokens) < MaxTokens
  /\ item' = "word" /\ said' = "word"
  /\ IF c = "space" THEN UNCHANGED <<entries, tokens>>
     ELSE entries' = addOperand(entries, Paren(c)) /\ tokens' = Append(tokens, Paren(c))
  /\ UNCHANGED <<phase, query, verbatim, next, stack, request>>

ReadQuote ==
  /\ phase = "reading"
  /\ verbatim' = ~verbatim
  /\ UNCHANGED <<phase, query, tokens, item, said, entries, next, stack, request>>

\* "unclosed quotation mark", "operator at the end of expression"
EndOfQuery ==
  LET read == Ended(item, tokens)
  IN  /\ phase = "reading"
      /\ tokens' = tokens \o read /\ query' = query \o Ended(said, query)
      /\ IF verbatim \/ item \in {"AND", "OR", "NOT"}
         THEN phase' = "failed" /\ UNCHANGED <<entries, next>>
         ELSE /\ phase' = "packing"
              /\ entries' = IF item = "none" THEN entries ELSE addOperand(entries, read[1])
              /\ next' = Len(entries')
      /\ item' = "none" /\ said' = "none"
      /\ UNCHANGED <<verbatim, stack, request>>

----------------------------------------------------------------------------
(* PackRequest handles one entry, from the last to the first.               *)
Packing == phase = "packing" /\ next > 0

\* Mutant: the request is built from its front.
PackWordLast ==
  /\ Packing /\ IsWord(entries[next])
  /\ request' = Append(request, entries[next])
  /\ next' = next - 1
  /\ UNCHANGED <<phase, query, tokens, item, said, verbatim, entries, stack>>
PackWord ==
  /\ Packing /\ IsWord(entries[next])
  /\ request' = <<entries[next]>> \o request
  /\ next' = next - 1
  /\ UNCHANGED <<phase, query, tokens, item, said, verbatim, entries, stack>>

\* The operator on the right of this one goes first, if there is no parenthesis between.
PackOperator ==
  /\ Packing /\ IsOperator(entries[next])
  /\ IF stack # <<>> /\ IsOperator(Last(stack))
     THEN /\ request' = <<Last(stack)>> \o request
          /\ stack' = Append(Front(stack), entries[next])
     ELSE stack' = Append(stack, entries[next]) /\ UNCHANGED request
  /\ next' = next - 1
  /\ UNCHANGED <<phase, query, tokens, item, said, verbatim, entries>>

PackClose ==
  /\ Packing /\ entries[next] = Close
  /\ stack' = Append(stack, Close)
  /\ next' = next - 1
  /\ UNCHANGED <<phase, query, tokens, item, said, verbatim, entries, request>>

\* The place on the stack of the parenthesis that is closed last.
IsLastClose(k) == stack[k] = Close /\ \A i \in (k + 1)..Len(stack) : stack[i] # Close

\* The operators above it go before the request, the one on top first.
Unroll(k) ==
  /\ request' = SubSeq(stack, k + 1, Len(stack)) \o request
  /\ stack' = SubSeq(stack, 1, k - 1)
  /\ next' = next - 1
  /\ UNCHANGED phase

\* "incorrect parents count", "incorrect parents count 2"
\* Mutant: with no closing parenthesis the whole stack is taken.
PackOpenAnyway ==
  /\ Packing /\ entries[next] = Open
  /\ \/ \E k \in DOMAIN stack : IsLastClose(k) /\ Unroll(k)
     \/ (\A k \in DOMAIN stack : stack[k] # Close) /\ Unroll(0)
  /\ UNCHANGED <<query, tokens, item, said, verbatim, entries>>
PackOpen ==
  /\ Packing /\ entries[next] = Open
  /\ \/ \E k \in DOMAIN stack : IsLastClose(k) /\ Unroll(k)
     \/ /\ \A k \in DOMAIN stack : stack[k] # Close
        /\ phase' = "failed" /\ UNCHANGED <<next, stack, request>>
  /\ UNCHANGED <<query, tokens, item, said, verbatim, entries>>

\* "incorrect parents count 3": only the bottom of the stack is looked at.
PackEnd ==
  /\ phase = "packing" /\ next = 0
  /\ IF stack = <<>> THEN phase' = "done" /\ UNCHANGED request
     ELSE IF IsOperator(stack[1])
     THEN phase' = "done" /\ request' = <<stack[1]>> \o request
     ELSE phase' = "failed" /\ UNCHANGED request
  /\ UNCHANGED <<query, tokens, item, said, verbatim, entries, next, stack>>

Next ==
  \/ \E x \in Names \cup {"word"} : ReadItem(x)
  \/ \E c \in {"space", "open", "close"} : ReadSeparator(c) \/ ReadQuotedSeparator(c)
  \/ ReadQuote \/ EndOfQuery
  \/ PackWord \/ PackOperator \/ PackClose \/ PackOpen \/ PackEnd

Spec == Init /\ [][Next]_vars

----------------------------------------------------------------------------
(* What a query means, from its grammar: an expression is a term, or a term,  *)
(* an operator and an expression; where the operator is left out it is AND;   *)
(* a term is a word or an expression in parentheses.  Operators have no       *)
(* precedence and group to the right, as in Test_largeExpr.  The prefix forms *)
(* of the tokens from i to j, none or one, when inner has those of the parts  *)
(* of less depth:                                                             *)
TermForms(q, inner, i, j) ==
  IF i = j /\ IsWord(q[i]) THEN {<<q[i]>>}
  ELSE IF i < j /\ q[i] = Open /\ q[j] = Close THEN inner[i + 1][j - 1]
  ELSE {}

Joined(op, ls, rs) == {<<op>> \o l \o r : l \in ls, r \in rs}

ExprForms(q, inner, i, j) ==
  TermForms(q, inner, i, j) \cup
  UNION {LET terms == TermForms(q, inner, i, k)
         IN  IF IsOperator(q[k + 1]) THEN Joined(q[k + 1], terms, inner[k + 2][j])
             ELSE Joined(And, terms, inner[k + 1][j]) : k \in i..(j - 1)}

FormsByDepth(q) ==
  LET forms[d \in 0..Len(q)] ==
        [i \in 1..(Len(q) + 1) |-> [j \in 0..Len(q) |->
           IF d = 0 THEN {} ELSE ExprForms(q, forms[d - 1], i, j)]]
  IN  forms

Forms(q) == FormsByDepth(q)[Len(q)][1][Len(q)]

----------------------------------------------------------------------------
\* No parenthesis and no name of an operator is quoted.
ReadAsWritten == tokens = query

\* A query that is an expression is accepted, whatever ANDs it leaves out and
\* wherever its parentheses are, and what is sent is its prefix form; of what is
\* quoted the code only gets the words right (search.go:328-368, 384-467).
MeaningIsKept ==
  ReadAsWritten =>
    /\ phase = "failed" => Forms(query) = {} \/ verbatim
    /\ phase = "done" /\ Forms(query) # {} => request \in Forms(query)

\* A parenthesis that is not closed is never sent, and never silently dropped: of
\* the parentheses of an accepted query each opening one has its closing one, if
\* none is quoted; the quoted ones count like the others (search.go:359-365).
Places(q, x, i) == {j \in i..Len(q) : q[j] = x}
Depth(q, i) == Cardinality(Places(q, Close, i)) - Cardinality(Places(q, Open, i))
OpenIsClosed ==
  phase = "done" /\ ReadAsWritten => \A i \in DOMAIN query : Depth(query, i) >= 0

\* The words that are read, which are numbered in their order, are sent, each once
\* and in that order, whatever is quoted and whatever is wrong with operators and
\* parentheses.
WordsAreKept ==
  phase = "done" =>
    /\ {request[i] : i \in Words(request)} = {tokens[i] : i \in Words(tokens)}
    /\ \A i, j \in Words(request) : i < j => request[i].n < request[j].n

\* An accepted query is an expression, unless it is one of four: nothing at all,
\* empty parentheses, an operator next to the inner side of a parenthesis or at
\* the end, and a closing parenthesis too many with a term after it; or a quoted
\* parenthesis or operator made it one.
LooksLikeExpression(q) ==
  /\ q # <<>>
  /\ ~IsOperator(Last(q))
  /\ \A i \in 1..(Len(q) - 1) :
       /\ q[i] = Open => ~IsOperator(q[i + 1]) /\ q[i + 1] # Close
       /\ IsOperator(q[i]) => q[i + 1] # Close
  /\ Depth(q, 1) = 0
AcceptedIsExpression ==
  phase = "done" /\ ReadAsWritten /\ LooksLikeExpression(query) => Forms(query) # {}
=============================================================================
