---------------------------- MODULE MCRegression ----------------------------
(* Two registered metrics, one of each direction.  The first takes values on *)
(* both sides of every threshold and zero; the second keeps to its baseline  *)
(* of 10, or loses 20 percent, possibly in another unit.                     *)
EXTENDS Regression

MCKeys == << <<"CPU-001", "measured_duration">>, <<"CPU-001", "operations_per_second">> >>
MCHigher == {2}
MCValues == {0, 8, 9, 10, 11, 12}
MCThresholds == {<<10, 20>>, <<0, 10>>, <<10, 10>>, <<-1, 10>>}

In(unit, values) == [value : values, unit : {unit}]
MCSourceMetrics ==
  {<<m, n>> : m \in {Absent} \cup In("a", {0, 10}), n \in {Absent} \cup In("a", {10})}
MCCurrentMetrics ==
  {<<m, n>> : m \in {Absent} \cup In("a", MCValues) \cup In("b", {10}),
              n \in {Absent} \cup In("a", {8, 10}) \cup In("b", {8})}
=============================================================================
