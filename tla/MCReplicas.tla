----------------------------- MODULE MCReplicas -----------------------------
(* Instances of Replicas for TLC. *)
EXTENDS Replicas

CONSTANTS e1, e2, v1, v2

Move(e, v)  == <<Set(e, "x", v)>>
Remove(e)   == <<Delete(e)>>

(* One contended property, written and deleted: what concurrent editing of  *)
(* one shape comes down to.                                                 *)
OneShape == {Move(e1, v1), Remove(e1)}

OneWay == {<<1, 2>>}

MCKeys   == {"x", "fill", DeletedKey}
MCValues == {v1, v2, TRUE}
=============================================================================
