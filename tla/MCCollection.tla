---------------------------- MODULE MCCollection ----------------------------
(* Instances of Collection for TLC. *)
EXTENDS Collection, TLC

CONSTANTS page, shared, v1, v2, desktop, mobile, p, q, empty

\* page differs by variant, shared does not; some payloads are on both.
SiteContent ==
    [u \in Uris |->
        [t \in {v1, v2} |->
            [v \in {desktop, mobile} |->
                IF u = page
                THEN IF (t = v1) = (v = desktop) THEN p ELSE q
                ELSE IF t = v1 THEN q ELSE p]]]

=============================================================================
