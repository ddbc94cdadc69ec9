---------------------------- MODULE MCAlgorithms ----------------------------
(***************************************************************************)
(* The parts of the runtime that compute a result from their arguments.    *)
(* Each has a module with the code's operators and the reference they are  *)
(* held to; a behaviour picks a family and a task and computes its answer. *)
(* Which method a call site runs is such a part too, and takes its steps.  *)
(***************************************************************************)
EXTENDS ILOpcodes, FiniteSets, Metadata, VirtualDispatch

VARIABLES family, task, answer

Null == -50
Raise == -60
Q == INSTANCE Queries WITH Width <- 4
A == INSTANCE Arithmetic WITH
        Bits <- [I1 |-> 2, I2 |-> 3, I4 |-> 4, I8 |-> 6], Mantissa <- 5, NaN <- -1000, Infinity <- 900, Objects <- {1, 2}
C == INSTANCE IRCode WITH
        Bits <- [I1 |-> 2, I2 |-> 3, I4 |-> 5, I8 |-> 6], Mantissa <- 5, NaN <- -1000, Infinity <- 900, Objects <- {1, 2},
        Table <- Opcodes, CodeOf <- Codes, MaxArrayLength <- 2, MaxSteps <- 200

\* A plugin's List of two, one nested in it (also as a reference of another
\* assembly), and the library's Nullable.
TypeDefs == <<[ns |-> "P", name |-> <<"List", "#", "1">>, enclosing |-> 0],
              [ns |-> "", name |-> <<"Node">>, enclosing |-> 1],
              [ns |-> "", name |-> <<"Pair", "#", "2">>, enclosing |-> 0],
              [ns |-> "P", name |-> <<"Owner">>, enclosing |-> 0],
              [ns |-> "", name |-> <<"Node">>, enclosing |-> 4]>>
TypeRefs == <<[ns |-> "System", name |-> <<"Nullable", "#", "1">>, scope |-> 0],
              [ns |-> "P", name |-> <<"List", "#", "1">>, scope |-> 0],
              [ns |-> "", name |-> <<"Node">>, scope |-> 2]>>
N == INSTANCE TypeNames WITH Defs <- TypeDefs, Refs <- TypeRefs, Cut <- 2

\* Class B extends A, which has interface I, which extends J; a struct and an
\* enum, a delegate, a class of the library and its base, an exception.
Type(is, base, interfaces) == [is |-> is, base |-> base, interfaces |-> interfaces]
TypeTree == [A |-> Type("class", "", {"I", "J"}), B |-> Type("class", "A", {}), I |-> Type("interface", "", {"J"}),
             J |-> Type("interface", "", {}), S |-> Type("struct", "", {"J"}), E |-> Type("enum", "", {}),
             D |-> Type("delegate", "", {}), N |-> Type("native", "M", {}), M |-> Type("native", "", {}),
             X |-> Type("exception", "Y", {}), Y |-> Type("exception", "", {})]
O == INSTANCE Overloads WITH Hierarchy <- TypeTree
E == INSTANCE Expressions
R == INSTANCE Reflection
T == INSTANCE Texts WITH MaxFormatAlignment <- 3, Width <- [I4 |-> 2, I8 |-> 4]

Four == {Null, 1, 2, 3}
QueryTasks == UNION {Q!PredicateTasks({1, 2, 3}, 3), Q!SequenceTasks(Four, 4), Q!IndexTasks(Four, 3),
                     Q!PairTasks(Four, 2), Q!OrderTasks(Four, 4)}

\* A program whose call site has run.
Idle ==
    /\ program = [declares |-> [k \in Classes |-> "own slot"], implements |-> [k \in Classes |-> "not listed"],
                  broken |-> {}, object |-> FALSE, names |-> 1, virtual |-> FALSE]
    /\ pc = "done" /\ at = 1 /\ ran = Method(1)

Start == /\ answer = <<>>
         /\ \/ family = "dispatch" /\ task = <<>> /\ Init
            \/ /\ Idle
               /\ \/ family = "queries" /\ task \in QueryTasks
                  \/ family = "arithmetic" /\ A!IsTask(task)
                  \/ family = "code" /\ C!IsCodeTask(task)
                  \/ family = "names" /\ N!IsNameTask(task)
                  \/ family = "overloads" /\ O!IsOverloadTask(task)
                  \/ family = "metadata" /\ IsMetadataTask(task)
                  \/ family = "expressions" /\ E!IsExpressionTask(task)
                  \/ family = "reflection" /\ R!IsReflectionTask(task)
                  \/ family = "texts" /\ T!IsTextTask(task)
Answer ==
    /\ answer = <<>>
    /\ \/ family = "queries" /\ answer' = <<Q!Run(Four, task)>>
       \/ family = "arithmetic" /\ answer' = <<A!Run(task)>>
       \/ family = "code" /\ answer' = <<C!RunCode(task)>>
       \/ family = "names" /\ answer' = <<N!RunName(task)>>
       \/ family = "overloads" /\ answer' = <<O!RunOverload(task)>>
       \/ family = "metadata" /\ answer' = <<RunMetadata(task)>>
       \/ family = "expressions" /\ answer' = <<E!RunExpression(task)>>
       \/ family = "reflection" /\ answer' = <<R!RunReflection(task)>>
       \/ family = "texts" /\ answer' = <<T!RunText(task)>>
    /\ UNCHANGED <<family, task, vars>>
Dispatch == family = "dispatch" /\ Next /\ UNCHANGED <<family, task, answer>>

Families == Start /\ [][Answer \/ Dispatch]_<<family, task, answer, vars>>

\* The family of arithmetic alone.
Arithmetics == family = "arithmetic" /\ Start /\ [][Answer]_<<family, task, answer, vars>>

Answered(f) == family = f /\ answer # <<>>

\* Every LINQ operator and sorting native gives what .NET's documentation says
\* of it: elements, order, ties, and which failure.
QueriesAreStandard == Answered("queries") => Q!Standard(Four, task, answer[1])

\* Every arithmetic, comparison and conversion opcode, of integers and floats, and
\* every number native leaves the value the instruction set and System.Math define,
\* at every boundary of a width.  Not of these: the unordered comparisons of NaN
\* (ComparisonsAreTheCLIs), the least integer divided by -1, conv.r.un of a negative
\* number, and the checks of the .ovf forms, which the code does not make.
ArithmeticIsTheCLIs == Answered("arithmetic") => A!Standard(task, answer[1])

\* Violated: cgt.un, clt.un, bge.un and their like, which C# emits for the comparisons
\* of floats that NaN makes true, have "real execution semantics" (supported-il.md:77-82).
ComparisonsAreTheCLIs ==
    Answered("arithmetic") /\ (task.of = "branch" \/ task.op.name \in {"ceq", "cgt", "clt"}) =>
        A!CompareStandard(task, answer[1])

\* A method does what its source says, from its bytes on: every branch reaches
\* its instruction, every protected region covers the same instructions, and a
\* body that is cut short is refused.
CodeMeansItsSource == Answered("code") => C!CodeStandard(task, answer[1])

\* The text of a type stands for the type: two types have one name only if they
\* are one; reflection takes a name apart into the parts it was made of; and the
\* name a running frame completes is that of the completed type.
NamesDenoteTypes == Answered("names") => N!NameStandard(task, answer[1])

\* A call reaches the method it was compiled for when its arguments or the
\* types it declares single it out, and casts and equality are those of the
\* types and values.
CallsReachTheirOverload == Answered("overloads") => O!OverloadStandard(task, answer[1])

\* What is read of an assembly is what a compiler wrote: every cell where the
\* layout puts it at every width, every signature, constant and attribute, every
\* member with its owner; and what is cut short is refused.
ReadsWhatWasWritten == Answered("metadata") => MetadataStandard(task, answer[1])

\* A compiled expression tree computes what C# means by it: value, exception,
\* assignments and the order of its calls; its Type is the type of its value;
\* and a visitor that replaces a parameter changes nothing else.
TreesComputeTheirMeaning == Answered("expressions") => E!ExpressionStandard(task, answer[1])

\* What reflection says of a type is what its assembly declares, wherever that
\* is; a member reached through it is the one looked up; an enum's texts and
\* values stand for each other; and types relate as they were declared.
ReflectionTellsTheDeclarations == Answered("reflection") => R!ReflectionStandard(task, answer[1])

\* What is cut, inserted, found, split, padded, compared or formatted of a text
\* are its characters in their places; a view of an array shows and changes
\* exactly the elements it covers; and what does not fit is refused.
TextsAreStandard == Answered("texts") => T!TextStandard(task, answer[1])
=============================================================================
