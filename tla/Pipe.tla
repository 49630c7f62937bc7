-------------------------------- MODULE Pipe --------------------------------
(***************************************************************************)
(* io.Pipe of the Go standard library, one pipe per mount.  A Write blocks *)
(* until the reader has taken the data or either end is closed; nothing is *)
(* buffered.  Closing either end makes every later Read and Write fail at  *)
(* once, and the first error stored by an end is kept.                     *)
(***************************************************************************)
EXTENDS ArchiveStream, PluginConfig

VARIABLES
    offer,      \* offer[i]: the chunk a blocked Write is offering
    rclosed,    \* rclosed[i]: the read end is closed
    werr        \* werr[i]: error the write end was closed with

pipeVars == <<offer, rclosed, werr>>

PipeTypeOK ==
    /\ offer \in [Mounts -> Chunks \cup {NoChunk}]
    /\ rclosed \in [Mounts -> BOOLEAN]
    /\ werr \in [Mounts -> {"none", "eof", "err"}]

PipeInit ==
    /\ offer = AtAll(NoChunk)
    /\ rclosed = AtAll(FALSE)
    /\ werr = AtAll("none")

(* The done channel is closed. *)
Closed(i) == rclosed[i] \/ werr[i] # "none"

(* A Write blocks with its chunk. *)
Offer(i, c) ==
    /\ offer' = [offer EXCEPT ![i] = c]
    /\ UNCHANGED <<rclosed, werr>>

(* A Read takes the chunk of the blocked Write. *)
Take(i) ==
    /\ offer[i] # NoChunk
    /\ ~Closed(i)
    /\ offer' = [offer EXCEPT ![i] = NoChunk]
    /\ UNCHANGED <<rclosed, werr>>

(* The error a Read returns once the pipe is closed: the writer's, unless the
   reader's own end was closed. *)
ReadError(i) == IF rclosed[i] THEN "closed" ELSE werr[i]

(* pw.CloseWithError(e): the first error wins, Close() stores EOF. *)
CloseWriter(i, e) ==
    /\ werr' = [werr EXCEPT ![i] = IF @ = "none" THEN e ELSE @]
    /\ UNCHANGED <<offer, rclosed>>

(* pr.CloseWithError(e) and pr.Close(). *)
CloseReader(i) ==
    /\ rclosed' = [rclosed EXCEPT ![i] = TRUE]
    /\ UNCHANGED <<offer, werr>>
=============================================================================
