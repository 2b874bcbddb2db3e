------------------------------- MODULE MCPhotos -------------------------------
(* Photos on a small instance: one kind of derivative, equal requests. *)
EXTENDS Photos, TLC

\* A photo's jobs of three queues at a time: ingest, derivatives, and one more.
OneMore == {{"ingest", "derivatives", q} : q \in {"watermark", "face", "quality"}}

OneKind == <<"preview">>

Equal == Permutations(Clients) \cup Permutations(Admins)
==============================================================================
