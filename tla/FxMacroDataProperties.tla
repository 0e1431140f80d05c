----------------------- MODULE FxMacroDataProperties -----------------------
(***************************************************************************)
(* What a fetch of macro observations promises to a backtest that must not *)
(* see revised values early.                                               *)
(***************************************************************************)
EXTENDS FxMacroData

\* Every observation has the value that was public at its vintage time, and this time is not
\* before the release, nor the release before the end of the period: no value is dated back
\* to a time when it was not known, and none outlives its revision, whatever is collected
\* late, twice, without a time, or between two pages.
VintagesAreTrue ==
    \A o \in fetch.observations :
        /\ o.period <= o.released /\ o.released <= o.at
        /\ o.value = AsOf(o.period, o.at)

\* What the service could tell of the requested periods as the fetch began is told in the
\* end, in whatever order the pages move: at its time the observations have that value.
EveryChangeIsTold ==
    fetch.pc = "done" =>
        \A k \in known : \E o \in fetch.observations :
            /\ o.period = k.period /\ o.at <= k.at /\ o.value = k.value
            /\ \A x \in fetch.observations :
                   x.period = k.period /\ o.at < x.at /\ x.at <= k.at => x.value = k.value
=============================================================================
