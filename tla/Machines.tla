------------------------------ MODULE Machines ------------------------------
(***************************************************************************)
(* StateMachineInterpreter, which keeps the state of each aggregate in     *)
(* memory, and its guards in VEL as VELParser and VELASTEvaluator take     *)
(* them.                                                                   *)
(***************************************************************************)
EXTENDS Integers, Sequences, SequencesExt, FiniteSets, Functions

CONSTANTS
  Conditions, \* conditions to parse and evaluate
  Aggregates, \* ids of aggregates of the machine
  Machine,    \* [initial, finals, states, transitions]; transitions in the order of their names:
              \* [from, to, trigger, emits, invalid, guard]
  Triggers,   \* triggers a caller may give
  Contexts,   \* contexts of a call: functions from some of the Fields
  Fields, Values,
  AllowUnresolved, \* allowUnresolvedConditions
  MaxDepth,   \* VELParser.maxDepth
  None, Null

VARIABLES
  ast, context, \* a condition and a context to try it in
  states,       \* aggregateStates
  last          \* the last call of transitionAggregate or resetAggregate

vars == <<ast, context, states, last>>

-----------------------------------------------------------------------------
(***************************************************************************)
(* Conditions: an AST is a literal, an identifier, exists, a membership, a *)
(* comparison with a constant, or not, and, or over them.  A field has no  *)
(* value, Null or one of Values.                                           *)
(***************************************************************************)
Literal(b)     == [type |-> "literal", value |-> b]
Identifier(f)  == [type |-> "identifier", name |-> f]
Exists(f)      == [type |-> "exists", field |-> f]
Member(f, S)   == [type |-> "membership", field |-> f, values |-> S]
Compare(f, op, v) == [type |-> "comparison", field |-> f, op |-> op, value |-> v]
Not(e)         == [type |-> "not", expr |-> e]
Bool(op, l, r) == [type |-> "boolean", op |-> op, left |-> l, right |-> r]

\* Number() of null is 0.
AsNumber(v) == IF v = Null THEN 0 ELSE v
Holds(op, l, r) ==
  CASE op = "<=" -> l <= r [] op = ">=" -> l >= r [] op = "<" -> l < r [] op = ">" -> l > r
    [] op = "==" -> l = r [] op = "!=" -> l # r

Comparison(e, c) == e.field \in DOMAIN c /\ Holds(e.op, AsNumber(c[e.field]), e.value)

RECURSIVE EvalAst(_, _)
EvalAst(e, c) ==
  CASE e.type = "literal"    -> e.value
    [] e.type = "identifier" -> e.name \in DOMAIN c /\ c[e.name] = 1
    [] e.type = "not"        -> ~EvalAst(e.expr, c)
    [] e.type = "boolean"    -> IF e.op = "AND" THEN EvalAst(e.left, c) /\ EvalAst(e.right, c)
                                                ELSE EvalAst(e.left, c) \/ EvalAst(e.right, c)
    [] e.type = "exists"     -> e.field \in DOMAIN c /\ c[e.field] # Null
    [] e.type = "membership" -> e.field \in DOMAIN c /\ c[e.field] # Null /\ c[e.field] \in e.values
    [] e.type = "comparison" -> Comparison(e, c)

(***************************************************************************)
(* VELParser over words: ( ) AND OR NOT, which are types alone, and the    *)
(* leaves.  An expression is split at its top level at OR, else at AND,    *)
(* else it is a negation or a leaf.  Words that are neither, which no      *)
(* condition written as below leaves over, are an error here; the code     *)
(* takes them for one identifier unless there is a parenthesis among them. *)
(***************************************************************************)
Word(w)      == [type |-> w]
Words        == {"(", ")", "AND", "OR", "NOT"}
Level(ws, n) == Cardinality({k \in 1..n : ws[k].type = "("}) - Cardinality({k \in 1..n : ws[k].type = ")"})
Balanced(ws) == Level(ws, Len(ws)) = 0 /\ \A n \in DOMAIN ws : Level(ws, n) >= 0
Inner(ws)    == SubSeq(ws, 2, Len(ws) - 1)
RECURSIVE StripOuterParens(_)
StripOuterParens(ws) ==
  IF Len(ws) >= 2 /\ Head(ws).type = "(" /\ Last(ws).type = ")" /\ Balanced(Inner(ws)) THEN StripOuterParens(Inner(ws)) ELSE ws

SplitTopLevel(ws, op) == {n \in DOMAIN ws : ws[n].type = op /\ Level(ws, n) = 0}
Parts(ws, op) ==
  LET cuts == SetToSortSeq(SplitTopLevel(ws, op) \cup {0, Len(ws) + 1}, <)
  IN [n \in 1..(Len(cuts) - 1) |-> SubSeq(ws, cuts[n] + 1, cuts[n + 1] - 1)]

Error == [type |-> "error"]
IsError(e) == e.type = "error"
Joined(op, es) ==
  IF \E n \in DOMAIN es : IsError(es[n]) THEN Error
  ELSE FoldLeft(LAMBDA l, r : Bool(op, l, r), Head(es), Tail(es))

RECURSIVE ParseExpression(_, _)
ParseExpression(words, depth) ==
  LET ws == StripOuterParens(words)
      sub(op) == LET ps == Parts(ws, op) IN Joined(op, [n \in DOMAIN ps |-> ParseExpression(ps[n], depth + 1)])
  IN CASE depth > MaxDepth                    -> Error
       [] depth <= MaxDepth /\ ws = <<>>       -> Literal(TRUE)
       [] depth <= MaxDepth /\ ws # <<>> /\ SplitTopLevel(ws, "OR") # {} -> sub("OR")
       [] depth <= MaxDepth /\ ws # <<>> /\ SplitTopLevel(ws, "OR") = {} /\ SplitTopLevel(ws, "AND") # {} -> sub("AND")
       [] OTHER -> IF Head(ws).type = "NOT" /\ Len(ws) > 1
                     THEN LET e == ParseExpression(Tail(ws), depth + 1) IN IF IsError(e) THEN Error ELSE Not(e)
                     ELSE IF Len(ws) = 1 /\ Head(ws).type \notin Words THEN Head(ws) ELSE Error

\* evaluateCondition of the interpreter: what does not parse or does not hold fails, unless it is allowed.
GuardPasses(guard, c) == AllowUnresolved \/ (~IsError(guard) /\ EvalAst(guard, c))

-----------------------------------------------------------------------------
(***************************************************************************)
(* The interpreter.                                                        *)
(***************************************************************************)
Transitions == Machine.transitions
Leaves(t, from, trigger) == t.from = from /\ (t.trigger = trigger \/ trigger \in t.emits)
FindTransitions(from, trigger) == {n \in DOMAIN Transitions : Leaves(Transitions[n], from, trigger)}

\* A seeded fault: a final state is one like any other.
ExecuteFinalToo(from, trigger, c) ==
  {n \in FindTransitions(from, trigger) : ~Transitions[n].invalid /\ GuardPasses(Transitions[n].guard, c)}
\* The transitions whose guard passes; the first by name is taken.
Execute(from, trigger, c) ==
  {n \in FindTransitions(from, trigger) :
     /\ from \in Machine.states /\ from \notin Machine.finals
     /\ ~Transitions[n].invalid /\ GuardPasses(Transitions[n].guard, c)}

Current(a) == IF states[a] = None THEN Machine.initial ELSE states[a]

\* claimed is the currentState of the caller, None when not given.
TransitionAggregate(a, trigger, c, claimed) ==
  /\ LET from == IF claimed = None THEN Current(a) ELSE claimed
         open == Execute(from, trigger, c)
     IN /\ states' = IF open = {} THEN states
                     ELSE [states EXCEPT ![a] = Transitions[CHOOSE n \in open : \A k \in open : n <= k].to]
        /\ last' = [kind |-> "transition", id |-> a, from |-> from, trigger |-> trigger, claimed |-> claimed # None,
                    accepted |-> open # {}]
  /\ UNCHANGED <<ast, context>>

ResetAggregate(a, to) ==
  /\ to \in Machine.states
  /\ states' = [states EXCEPT ![a] = to]
  /\ last' = [kind |-> "reset", id |-> a]
  /\ UNCHANGED <<ast, context>>

Init ==
  /\ ast \in Conditions \cup {None} /\ context \in IF ast = None THEN {None} ELSE Contexts
  /\ states = [a \in Aggregates |-> None] /\ last = None

Next ==
  /\ ast = None
  /\ \/ \E a \in Aggregates, t \in Triggers, c \in Contexts, s \in Machine.states \cup {None} : TransitionAggregate(a, t, c, s)
     \/ \E a \in Aggregates, s \in Machine.states : ResetAggregate(a, s)

Spec == Init /\ [][Next]_vars

-----------------------------------------------------------------------------
TypeOK ==
  /\ \A a \in Aggregates : states[a] \in Machine.states \cup {None}
  /\ last # None => last.id \in Aggregates

\* The reference: how a condition is written, and how deep it nests.
RECURSIVE Written(_)
Written(e) ==
  LET inner(x)  == IF x.type = "boolean" THEN <<Word("(")>> \o Written(x) \o <<Word(")")>> ELSE Written(x)
      left(x, op) == IF x.type = "boolean" /\ x.op = op THEN Written(x) ELSE inner(x)
  IN CASE e.type = "not"     -> <<Word("NOT")>> \o inner(e.expr)
       [] e.type = "boolean" -> left(e.left, e.op) \o <<Word(e.op)>> \o inner(e.right)
       [] OTHER              -> <<e>>
RECURSIVE Height(_)
Height(e) ==
  LET above(x) == Height(x) + 1
      larger(m, n) == IF m > n THEN m ELSE n
  IN CASE e.type = "not"     -> above(e.expr)
       [] e.type = "boolean" -> larger(IF e.left.type = "boolean" /\ e.left.op = e.op THEN Height(e.left) ELSE above(e.left),
                                       above(e.right))
       [] OTHER              -> 0

RECURSIVE Negates(_)
Negates(e) == e.type = "not" \/ (e.type = "boolean" /\ (Negates(e.left) \/ Negates(e.right)))
Extensions(c) == {d \in UNION {[D -> Values \cup {Null}] : D \in SUBSET Fields} :
                    DOMAIN c \subseteq DOMAIN d /\ \A f \in DOMAIN c : d[f] = c[f]}

(***************************************************************************)
(* VELParser gives a condition, written with no parentheses but those it   *)
(* needs, back as it was meant, or refuses it when it nests too deep.      *)
(***************************************************************************)
ParsedAsWritten ==
  ast # None => ParseExpression(Written(ast), 0) = IF Height(ast) > MaxDepth THEN Error ELSE ast

(***************************************************************************)
(* Missing facts fail closed: a condition without NOT that holds in a      *)
(* context holds whatever the facts that are missing there.                *)
(***************************************************************************)
MissingFailsClosed ==
  ast # None /\ ~Negates(ast) /\ EvalAst(ast, context) => \A d \in Extensions(context) : EvalAst(ast, d)

(***************************************************************************)
(* An aggregate leaves a final state only when it is reset or when the     *)
(* caller says that it is in another.                                      *)
(***************************************************************************)
FinalIsFinal ==
  [][\A a \in Aggregates : states[a] \in Machine.finals /\ states'[a] # states[a] => last'.kind = "reset" \/ last'.claimed]_vars
=============================================================================
