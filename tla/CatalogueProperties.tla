------------------------ MODULE CatalogueProperties ------------------------
(* What the catalogue keeps of its queue.                                  *)
EXTENDS Catalogue

Skill == [slug : Terms, aliases : SUBSET Terms, request : 0 .. MaxRequests]

SkillRequest == [by : Users, term : Terms, recent : BOOLEAN,
                 status : {"pending", "approved", "rejected"}]

Decision == [pc : {"idle", "approving", "rejecting"}, request : 0 .. MaxRequests,
             entry : SUBSET {e \in Entries : e.slug # NoTerm},
             told : {"nothing", "unknown_skill", "slug_taken", "alias_taken", "approved",
                     "rejected", "request_already_decided"}]

TypeOK ==
  /\ skills \subseteq Skill
  /\ requests \in Seq(SkillRequest) /\ Len(requests) <= MaxRequests
  /\ asking \in [Clients -> [pc : {"idle", "matched", "counted"}, term : Terms \cup {NoTerm}]]
  /\ \A c \in Clients : asking[c].pc # "idle" => asking[c].term \in Terms
  /\ deciding \in [Admins -> Decision]

(* Every entry is explained by the one request approved for it and every   *)
(* approval by its entry, however two administrators decide at once; what  *)
(* either was told stays true, since a decision is final; and a refusal    *)
(* that says "already decided" is a decision made, or an entry somebody    *)
(* else put in its place (DecideSkillRequest, DecideRequest, Create).      *)
DecisionsStand ==
  /\ \A s \in skills : s.request # Seeded => requests[s.request].status = "approved"
  /\ \A i \in ByStatus("approved") : Cardinality({s \in skills : s.request = i}) = 1
  /\ \A a \in Admins :
       LET d == deciding[a] IN
       /\ d.told \in {"approved", "rejected"} => requests[d.request].status = d.told
       /\ d.told = "approved" =>
            \E s \in skills : s.request = d.request /\ \A e \in d.entry : s.slug = e.slug
       /\ d.told = "request_already_decided" =>
            \/ requests[d.request].status # "pending"
            \/ \E e \in d.entry : ~Insertable(e)
       /\ d.told \in {"slug_taken", "alias_taken"} =>
            \E e \in d.entry : \E t \in NamesOf(e) : Has(t)

(* What keeps it: an entry is of an approved request, and a request has one
   entry when it is approved; what an administrator was told names a request. *)
EntriesExplained ==
  /\ \A s \in skills : s.request # Seeded => s.request \in ByStatus("approved")
  /\ \A s, t \in skills : s.request = t.request /\ s.request # Seeded => s = t
  /\ \A i \in ByStatus("approved") : \E s \in skills : s.request = i

Stands(d) ==
  /\ \A e, f \in d.entry : e = f
  /\ d.pc # "idle" => d.request \in DOMAIN requests
  /\ d.pc = "approving" => d.entry # {}
  /\ d.told \in {"approved", "rejected"} => d.request \in ByStatus(d.told)
  /\ d.told = "approved" =>
       \E s \in skills : s.request = d.request /\ \A e \in d.entry : s.slug = e.slug
  /\ d.told = "request_already_decided" =>
       \/ d.request \in DOMAIN requests /\ requests[d.request].status # "pending"
       \/ \E e \in d.entry : ~Insertable(e)
  /\ d.told \in {"slug_taken", "alias_taken"} =>
       \E e \in d.entry : \E t \in NamesOf(e) : Has(t)

AnswersStand == \A a \in Admins : Stands(deciding[a])

Pages(u) == {c \in Clients : Owner[c] = u}

(* The rolling window lets through the limit, and no more beyond it than   *)
(* the proposals one contributor had in flight at once: the count and the  *)
(* insert are two statements (withinRequestLimit, CreateRequest).          *)
WindowHolds ==
  \A u \in Users :
    Cardinality(RequestsSince(u)) <= SkillRequestLimit + Cardinality(Pages(u)) - 1

(* What keeps it: a page that has been counted holds a place in the window
   until its proposal is recorded. *)
Counted(u) == {c \in Pages(u) : asking[c].pc = "counted"}

PlacesAreHeld ==
  \A u \in Users :
    Cardinality(RequestsSince(u)) + Cardinality(Counted(u))
      <= SkillRequestLimit + Cardinality(Pages(u)) - 1

CatalogueInvariant == TypeOK /\ EntriesExplained /\ AnswersStand /\ PlacesAreHeld
=============================================================================
