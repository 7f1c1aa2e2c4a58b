----------------------------- MODULE Normalize -----------------------------
(***************************************************************************)
(* normalize.py: a raw candidate in, the record the checks read and the    *)
(* hash covers out.  Of the fields that may be absent those the checks     *)
(* read are modelled by value; `absent` names the others.                  *)
(***************************************************************************)
EXTENDS Checks

Absent == -2        \* raw observed_at that is missing

\* TRACKED_OPTIONAL_FIELDS that `absent` can name.
TrackedOptional == {"task.purpose", "task.required_data", "service.description"}

\* A raw candidate.
IsRaw(raw) ==
  /\ DOMAIN raw = {"request", "key", "retry_of", "service", "params",
                   "observed_at", "prior", "absent"}
  /\ raw.retry_of \in BOOLEAN /\ raw.observed_at \in Nat \cup {Absent, NoTime}
  /\ raw.absent \subseteq Required \cup TrackedOptional
  /\ \A p \in raw.prior : p.acquired_at \in Nat \cup {NoTime}

\* missing_fields of a normalised record.
MissingFields(c) ==
  c.absent
    \cup (IF c.request = NoRequest THEN {"request_id"} ELSE {})
    \cup (IF c.params = NoParams THEN {"service.request_params_hash"} ELSE {})
    \cup (IF \E p \in c.prior : ~p.summary THEN {"prior_acquisitions.summary"} ELSE {})

\* A candidate without observed_at gets the time of the call, so that field is
\* never among the missing ones.
Normalized(raw, now) ==
  LET at == IF raw.observed_at = Absent THEN now ELSE raw.observed_at
      c  == [raw EXCEPT !.observed_at = at]
  IN  [f \in DOMAIN c \cup {"missing"} |-> IF f = "missing" THEN MissingFields(c) ELSE c[f]]
=============================================================================
