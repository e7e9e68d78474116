----------------------------- MODULE MCWorkPage -----------------------------
(* A Work of two Parts with a tab left open, and a few things that go wrong. *)
EXTENDS WorkPage

MCStops == {"sandbox", "unsupported", "exhausted", "provider_failure",
            "action", "publication"}

=============================================================================
