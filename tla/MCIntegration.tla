--------------------------- MODULE MCIntegration ---------------------------
(***************************************************************************)
\* Instances of Integration for TLC: all kinds of worksets, one or two
\* kills, and others who act at chosen moments.
(***************************************************************************)
EXTENDS IntegrationProperties

MCAnyWorkset == {w \in WorksetFile : w.built /\ ~w.partial}
MCUncapped == {w \in MCAnyWorkset : ~w.capped}

MCAnywhere == Positions

\* Others act at any moment but between the renderer's check and its write.
MCNotWhileWriting == Positions \ {"report", "snapshot"}
=============================================================================
