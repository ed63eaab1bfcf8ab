--------------------------- MODULE MCReadingRoute ---------------------------
(* ReadingRoute with two series of two slots, one to a page, and the       *)
(* errors that differ in code, type or place, alone and in pairs.          *)
EXTENDS ReadingRoute

Point == {"supplyPoint"}
Series1 == {"supplyPoint", "readings"}
Quality == {"supplyPoint", "readings", "qualities"}
Detail(code, type, path) == [code |-> code, type |-> type, path |-> path]
Singles ==
    {Detail("rate", "none", {}), Detail("expired", "none", {}),
     Detail("refused", "validation", Series1), Detail("disabled", "validation", Series1),
     Detail("none", "authorization", Series1), Detail("none", "authorization", Quality),
     Detail("none", "authorization", Point), Detail("none", "validation", Series1),
     Detail("none", "authentication", {}), Detail("none", "not_found", Point),
     Detail("none", "disabled", Series1)}
MCErrors == {{d, e} : d, e \in Singles}
\* Every availability of the current model, and of the older sources.
MCFound ==
    {c \in Capabilities :
        /\ c.point = "import" /\ ~c.export
        /\ c.half_hourly \in {"unknown", "forbidden"} /\ c.interval \in {"supported", "unsupported"}
        /\ c.quality => c.generic = "supported" /\ c.import}
    \cup {c \in Capabilities :
        /\ c.point = "unknown" /\ c.generic = "supported" /\ c.import /\ c.export /\ ~c.quality
        /\ c.half_hourly = "supported" /\ c.interval = "unsupported"}
=============================================================================
