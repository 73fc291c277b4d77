--------------------------- MODULE MCFileDownload ---------------------------
(* TLC's instance of FileDownload.                                           *)
EXTENDS FileDownload

\* Of the history, what the properties look at: no step does.
View == <<entry, pc, file, streamed, incoming, handlerVars, jobVars, bounds,
          orderly /\ ~lost, Undisturbed, confirmed>>
=============================================================================
