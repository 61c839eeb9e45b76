------------------------------ MODULE Delivery ------------------------------
(***************************************************************************)
(* What a License is good for: a link to the files of one work, until its  *)
(* download right expires.  The buyer learns the link from the answer of   *)
(* the settlement, again from its replay, from the work's page, or with    *)
(* the signature of the payment.  The row of the License never changes;    *)
(* the work may be taken off sale, deleted, or lose files meanwhile.       *)
(*                                                                         *)
(* A download is five readings, and no transaction holds them together.    *)
(***************************************************************************)
EXTENDS Naturals, FiniteSets

CONSTANTS
    Sales,     \* signatures of payments for the work
    Users,     \* accounts; buyers without one are Nothing
    Gallery,   \* its further images; the main one is Cover
    LastDay,   \* bound: the clock
    Right,     \* days a download right lasts
    Nothing

VARIABLES
    day,
    work,      \* "public", "private" or "deleted"
    stored,    \* the files that are in storage
    license,   \* license[s]: the License granted for payment s
    links,     \* the links that have been answered, and to whom
    fetch      \* the latest download: how far it is, what it was asked and what it has read

deliveryVars == <<day, work, stored, license, links, fetch>>

Cover == "cover"
WholeWork == Gallery \cup {Cover}
Buyers == Users \cup {Nothing}
Token == [sale: Sales, day: 0..LastDay]     \* the payment, and when it was drawn
License == [buyer: Buyers, token: Token, expires: 0..LastDay + Right]
Link == [holder: Buyers, token: Token]
Ended == {"none", "served", "refused", "purged", "error"}
NoFetch == [at |-> "none", link |-> Nothing, on |-> 0, files |-> {}, due |-> {}]

DeliveryTypeOK ==
    /\ day \in 0..LastDay
    /\ work \in {"public", "private", "deleted"}
    /\ stored \subseteq WholeWork
    /\ license \in [Sales -> License \cup {Nothing}]
    /\ links \subseteq Link
    /\ fetch \in [at: Ended \cup {"work", "cover", "gallery", "images"}, link: Link \cup {Nothing},
                  on: 0..LastDay, files: SUBSET WholeWork, due: SUBSET Gallery]

DeliveryInit ==
    /\ day = 0
    /\ work = "public"
    /\ stored = WholeWork
    /\ license = [s \in Sales |-> Nothing]
    /\ links = {}
    /\ fetch = NoFetch

----------------------------------------------------------------------------
Tomorrow ==
    /\ day < LastDay
    /\ day' = day + 1
    /\ UNCHANGED <<work, stored, license, links, fetch>>

\* update_asset_terms, as far as it concerns who sees the work.
Expose(visibility) ==
    /\ work \notin {visibility, "deleted"}
    /\ work' = visibility
    /\ UNCHANGED <<day, stored, license, links, fetch>>

\* delete_asset: the Licenses go with the work, the files stay.
DeleteWork ==
    /\ work # "deleted"
    /\ work' = "deleted"
    /\ license' = [s \in Sales |-> Nothing]
    /\ UNCHANGED <<day, stored, links, fetch>>

\* Nothing in the program removes the files of a work; an operator may.
Purge(f) ==
    /\ f \in stored
    /\ stored' = stored \ {f}
    /\ UNCHANGED <<day, work, license, links, fetch>>

----------------------------------------------------------------------------
(***************************************************************************)
(* Who is told the link.                                                   *)
(***************************************************************************)
Active(s) == license[s] # Nothing /\ license[s].expires > day
Told(s, u) == links' = links \cup {[holder |-> u, token |-> license'[s].token]}

Fresh(s, u) == [buyer |-> u, token |-> [sale |-> s, day |-> day], expires |-> day + Right]

\* grant: a payment that has a License is answered with that License, as it is.
\* Granted_Anew draws a new token for a buyer whose right has expired.
Granted_Anew(s, u) == IF Active(s) THEN license ELSE [license EXCEPT ![s] = Fresh(s, u)]
Granted(s, u) == IF license[s] # Nothing THEN license ELSE [license EXCEPT ![s] = Fresh(s, u)]

\* A payment is settled, or settled again by anybody who names it.  (Of the routes some
\* ask for a work on sale and some do not.)
Settle(s, u) ==
    /\ work # "deleted"
    /\ license' = Granted(s, u)
    /\ Told(s, u)
    /\ UNCHANGED <<day, work, stored, fetch>>

\* The page of the work shows a buyer who is signed in the latest right that is active.
Newest(S) == {s \in S : \A x \in S : license[x].token.day <= license[s].token.day}
ShowPage(u) ==
    /\ work = "public"
    /\ \E s \in Newest({x \in Sales : Active(x) /\ license[x].buyer = u}) :
          license' = license /\ Told(s, u)
    /\ UNCHANGED <<day, work, stored, fetch>>

\* GET with the signature of the payment, or the seller agent's fulfilment: whoever
\* names the payment is told its link, also when the work is off sale.
Fulfil(s, u) ==
    /\ Active(s)
    /\ license' = license
    /\ Told(s, u)
    /\ UNCHANGED <<day, work, stored, fetch>>

----------------------------------------------------------------------------
(***************************************************************************)
(* download: the License, the work, its main file, the list of its other   *)
(* images, and those.                                                      *)
(***************************************************************************)
World == <<day, work, stored, license, links>>

\* 403 for a token no License has, an expired right, or another buyer's.
Valid(link) ==
    LET s == link.token.sale
    IN  Active(s) /\ license[s].token = link.token /\ license[s].buyer \in {Nothing, link.holder}

Begin(link) ==
    /\ fetch.at \in Ended
    /\ link \in links
    /\ fetch' = [NoFetch EXCEPT !.at = IF Valid(link) THEN "work" ELSE "refused",
                                !.link = link, !.on = day]
    /\ UNCHANGED World

Reads(from, to) == fetch.at = from /\ fetch' = to /\ UNCHANGED World

ReadWork == Reads("work", [fetch EXCEPT !.at = IF work = "deleted" THEN "error" ELSE "cover"])

ReadCover ==
    Reads("cover", IF Cover \in stored THEN [fetch EXCEPT !.at = "gallery", !.files = {Cover}]
                                       ELSE [fetch EXCEPT !.at = "purged"])

\* The rows of the images go with the work.
ListGallery ==
    Reads("gallery", [fetch EXCEPT !.at = "images", !.due = IF work = "deleted" THEN {} ELSE Gallery])

\* All of them, or 410: Complete_Some delivers what is there.
Complete_Some(due) == TRUE
Complete(due) == due \subseteq stored
ReadImages ==
    Reads("images", IF Complete(fetch.due)
                    THEN [fetch EXCEPT !.at = "served", !.files = @ \cup (fetch.due \cap stored)]
                    ELSE [fetch EXCEPT !.at = "purged"])

Download == ReadWork \/ ReadCover \/ ListGallery \/ ReadImages

DeliveryNext ==
    \/ Tomorrow \/ DeleteWork
    \/ \E v \in {"public", "private"} : Expose(v)
    \/ \E f \in WholeWork : Purge(f)
    \/ \E s \in Sales, u \in Buyers : Settle(s, u) \/ Fulfil(s, u)
    \/ \E u \in Users : ShowPage(u)
    \/ \E link \in links : Begin(link)
    \/ Download

DeliverySpec == DeliveryInit /\ [][DeliveryNext]_deliveryVars

----------------------------------------------------------------------------
(***************************************************************************)
(* Properties.                                                             *)
(***************************************************************************)

\* Every link that was ever answered gives its buyer the whole work for as long as the
\* right was granted for and not longer, whatever happens to the work on sale and
\* however often the settlement is replayed; unless the work is deleted, files are
\* removed from storage, or the payment was an account's and the link another's.  (A
\* work deleted in the middle of a download may be delivered without its gallery.)
LinksServeTheWork ==
    LET token == fetch.link.token
        lapsed == fetch.on >= token.day + Right
    IN  /\ fetch.at = "served" => ~lapsed /\ (fetch.files = WholeWork \/ work = "deleted")
        /\ fetch.at = "refused" /\ ~lapsed /\ work # "deleted" =>
              license[token.sale].buyer \notin {Nothing, fetch.link.holder}
        /\ fetch.at = "purged" => stored # WholeWork
=============================================================================
