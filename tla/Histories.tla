----------------------------- MODULE Histories -----------------------------
(* The telemetries of a training job and of an OPD one, which share no state. *)
EXTENDS EfficiencyTelemetry, OPDTelemetry

\* The frames of a monitor are those of the steps its model has taken, with either
\* telemetry, and OPD's refuses no resume of a lineage whose jobs all persisted it; see
\* EfficiencyTelemetry and OPDTelemetry.
HistoriesAreTrained == HistoryIsTrained /\ MeasuredIsTrained /\ RefusedUnpersisted
=============================================================================
