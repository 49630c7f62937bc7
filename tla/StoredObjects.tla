--------------------------- MODULE StoredObjects ----------------------------
(***************************************************************************)
(* The objects a run in rebuild mode can leave in storage, whatever becomes *)
(* of it: what a run in restore mode may find.                             *)
(***************************************************************************)
EXTENDS ArchiveStream, PluginConfig

(* Backends that show an object only when all of its upload has succeeded. *)
OnlyWhole == conf.kind \in {"azure", "s3"}

(* A failed walk still writes the trailer, so an archive may end with it and
   miss entries; it is cut anywhere, also in its trailer or footer, when the
   upload is. *)
Leavings(v, shrink) ==
    {NoObject} \cup
    {o \in [ver: {v}, entries: 0..NumEntries,
            end: {"open", "torn", "short", "trailer"}, footer: BOOLEAN] :
        /\ o.footer => conf.gzip /\ o.end # "open"
        /\ o.end = "torn" /\ o.entries = NumEntries => ~o.footer
        /\ o.end = "short" => shrink /\ o.entries < NumEntries
        /\ OnlyWhole => Complete(o, conf.gzip) \/ (shrink /\ Shrunk(o, conf.gzip))}
=============================================================================
