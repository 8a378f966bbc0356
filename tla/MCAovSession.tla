------------------------------ MODULE MCAovSession ------------------------------
(* Instances of AovSession for TLC. *)
EXTENDS AovSession

\* One call of each kind of reply test: a setting, the loop of Trigger, the
\* call of two requests, a marker, and a trace.
EveryKind == {"SetSpan", "Trigger", "SetAllSettings", "GetMarker", "GetSpectrumData"}
SettingsAndTrigger == {"SetSpan", "Trigger"}

\* An amplitude byte that is none of the status values, and one that is the
\* busy status.
AmplitudeBytes == {3, 128}
=============================================================================
