------------------------- MODULE MCExceptionUnwind -------------------------
(* Methods as the C# compiler lays them out, for ExceptionUnwind. *)
EXTENDS ExceptionUnwind

Nop == [op |-> "nop"]
Call == [op |-> "call"]
BranchTo(ts) == [op |-> "branch", targets |-> ts]
Throw == [op |-> "throw"]
LeaveTo(t) == [op |-> "leave", target |-> t]
EndFinally == [op |-> "endfinally"]
EndFilter == [op |-> "endfilter"]
RethrowI == [op |-> "rethrow"]
Ret == [op |-> "ret"]

\* Regions are [start, end) as in ir.Handler, over IR indices from 1.
CatchC(ts, te, hs, he, t) == [kind |-> "catch", ts |-> ts, te |-> te, hs |-> hs, he |-> he, type |-> t]
FinallyC(ts, te, hs, he) == [kind |-> "finally", ts |-> ts, te |-> te, hs |-> hs, he |-> he]
FaultC(ts, te, hs, he) == [kind |-> "fault", ts |-> ts, te |-> te, hs |-> hs, he |-> he]
FilterC(ts, te, fs, hs, he) == [kind |-> "filter", ts |-> ts, te |-> te, fs |-> fs, hs |-> hs, he |-> he]

\* Two exception classes, Sub derived from Base.
ExceptionClasses == {"Base", "Sub"}
IsAssignable(ex, type) == ex = type \/ type = "Base"

\* try { call } catch (Base) { call } finally { call }
TryCatchFinally ==
    [ir |-> <<Call, LeaveTo(5), Call, LeaveTo(5), LeaveTo(8), Call, EndFinally, Ret>>,
     handlers |-> <<CatchC(1, 3, 3, 5, "Base"), FinallyC(1, 6, 6, 8)>>]

\* try { try { try { call; if (c) return; } finally { call } } finally { call } }
\* catch (Sub) { call } catch (Base) { call; throw; }
NestedTries ==
    [ir |-> <<Call, BranchTo({3, 4}), LeaveTo(15), LeaveTo(7), Call, EndFinally,
              LeaveTo(10), Call, EndFinally, LeaveTo(15),
              Call, LeaveTo(15), Call, RethrowI, Ret>>,
     handlers |-> <<FinallyC(1, 5, 5, 7), FinallyC(1, 8, 8, 10),
                    CatchC(1, 11, 11, 13, "Sub"), CatchC(1, 11, 13, 15, "Base")>>]

\* try { try { call } finally { call } } catch (...) when (c) { call } catch (Sub) { call; throw; }
CatchWhen ==
    [ir |-> <<Call, LeaveTo(5), Call, EndFinally, LeaveTo(12),
              Nop, EndFilter, Call, LeaveTo(12), Call, RethrowI, Ret>>,
     handlers |-> <<FinallyC(1, 3, 3, 5), FilterC(1, 6, 6, 8, 10), CatchC(1, 6, 10, 12, "Sub")>>]

\* An iterator's MoveNext: yield return inside a foreach, cleanup in a fault.
YieldInForeach ==
    [ir |-> <<Call, BranchTo({3, 4}), LeaveTo(11), Call, LeaveTo(8), Call, EndFinally,
              LeaveTo(11), Call, EndFinally, Ret>>,
     handlers |-> <<FaultC(1, 6, 6, 8), FinallyC(1, 9, 9, 11)>>]

\* try { call } catch (Base) { try { call } finally { call } if (c) throw; }
FinallyInCatch ==
    [ir |-> <<Call, LeaveTo(10), Call, LeaveTo(7), Call, EndFinally,
              BranchTo({8, 9}), RethrowI, LeaveTo(10), Ret>>,
     handlers |-> <<CatchC(1, 3, 3, 10, "Base"), FinallyC(3, 5, 5, 7)>>]

\* try { call } finally { try { call } catch (Sub) { call } call }, in catch (Base)
CatchInFinally ==
    [ir |-> <<Call, LeaveTo(9), Call, LeaveTo(7), Call, LeaveTo(7), Call, EndFinally,
              LeaveTo(12), Call, LeaveTo(12), Ret>>,
     handlers |-> <<CatchC(3, 5, 5, 7, "Sub"), FinallyC(1, 3, 3, 9), CatchC(1, 10, 10, 12, "Base")>>]

\* try { try { if (c) throw; } catch (Sub) { throw; } } finally { call }
ThrowAgain ==
    [ir |-> <<BranchTo({2, 3}), Throw, LeaveTo(5), Throw, LeaveTo(8), Call, EndFinally, Ret>>,
     handlers |-> <<CatchC(1, 4, 4, 5, "Sub"), FinallyC(1, 6, 6, 8)>>]

\* while (c) try { call; if (c) break; } finally { call }
TryInLoop ==
    [ir |-> <<Call, BranchTo({3, 4}), LeaveTo(8), LeaveTo(7), Call, EndFinally, BranchTo({1, 8}), Ret>>,
     handlers |-> <<FinallyC(1, 5, 5, 7)>>]

\* while (true) try { call; break; } catch (Base) { if (c) throw; }
RetryLoop ==
    [ir |-> <<Call, LeaveTo(7), BranchTo({4, 5}), RethrowI, LeaveTo(6), BranchTo({1}), Ret>>,
     handlers |-> <<CatchC(1, 3, 3, 6, "Base")>>]

\* try { call } finally { try { call } finally { call } call }: a using, lock or
\* foreach inside a finally block.
FinallyInFinally ==
    [ir |-> <<Call, LeaveTo(9), Call, LeaveTo(7), Call, EndFinally, Call, EndFinally, Ret>>,
     handlers |-> <<FinallyC(3, 5, 5, 7), FinallyC(1, 3, 3, 9)>>]

\* try { call } finally { try { call } catch (...) when (c) { call } call }
CatchWhenInFinally ==
    [ir |-> <<Call, LeaveTo(11), Call, LeaveTo(9), Nop, EndFilter, Call, LeaveTo(9),
              Call, EndFinally, Ret>>,
     handlers |-> <<FilterC(3, 5, 5, 7, 9), FinallyC(1, 3, 3, 11)>>]

\* try { call } catch (Base) { try { call } catch (Sub) { call } if (c) throw; }
CatchInCatch ==
    [ir |-> <<Call, LeaveTo(10), Call, LeaveTo(7), Call, LeaveTo(7), BranchTo({8, 9}), RethrowI,
              LeaveTo(10), Ret>>,
     handlers |-> <<CatchC(3, 5, 5, 7, "Sub"), CatchC(1, 3, 3, 10, "Base")>>]

\* try { call } finally { try { try { call } catch (Sub) { try { call } finally { call } throw; } }
\* catch (Base) { call } call }: the slot of the inner finally outlives it.
StaleSlot ==
    [ir |-> <<Call, LeaveTo(14), Call, LeaveTo(12), Call, LeaveTo(9), Call, EndFinally, RethrowI,
              Call, LeaveTo(12), Call, EndFinally, Ret>>,
     handlers |-> <<FinallyC(5, 7, 7, 9), CatchC(3, 5, 5, 10, "Sub"), CatchC(3, 10, 10, 12, "Base"),
                    FinallyC(1, 3, 3, 14)>>]

\* try { call } fault { do try { call } finally { call } while (c) }
LoopInFault ==
    [ir |-> <<Call, LeaveTo(9), Call, LeaveTo(7), Call, EndFinally, BranchTo({3, 8}), EndFinally, Ret>>,
     handlers |-> <<FinallyC(3, 5, 5, 7), FaultC(1, 3, 3, 9)>>]

\* Nothing verifies IL before it runs: terminators outside any handler.
Stray(i) == [ir |-> <<Call, i, Ret>>, handlers |-> <<>>]

StructuredMethods ==
    {TryCatchFinally, NestedTries, CatchWhen, YieldInForeach, FinallyInCatch, CatchInFinally,
     ThrowAgain, TryInLoop, RetryLoop, CatchInCatch}
\* Handlers of one kind or another run inside the body of a finally.
NestedMethods == {FinallyInFinally, CatchWhenInFinally, StaleSlot, LoopInFault}
AllMethods ==
    StructuredMethods \cup NestedMethods
    \cup {Stray(EndFinally), Stray(EndFilter), Stray(RethrowI)}

ASSUME MethodsAreWellFormed == \A m \in StructuredMethods \cup NestedMethods : WellFormed(m)
=============================================================================
