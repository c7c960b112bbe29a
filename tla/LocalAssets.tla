----------------------------- MODULE LocalAssets -----------------------------
(***************************************************************************)
(* The images of the Mac that a phone may load: LocalAssetRegistry          *)
(* (bridge-core/src/local_assets.rs), the handlers that give an event's      *)
(* images a token before the phone is told of them, and the loads of the     *)
(* phone (http_api.rs).                                                     *)
(*                                                                         *)
(* The registry's mutex is taken anew for every image, so that handlers and  *)
(* loads interleave between two images of one page.  The clock is in steps   *)
(* that matter to the time to live.  last_accessed_at is left out: nothing   *)
(* reads it.                                                               *)
(***************************************************************************)
EXTENDS Naturals, Sequences, FiniteSets, Functions

CONSTANTS Images,      \* paths of local images in Codex's messages
          Pages,       \* the images of an answer or an event, in order
          Handlers,    \* handlers that may be at work at once
          MaxEntries,  \* LocalAssetRegistryConfig::max_entries (256)
          Ttl,         \* LocalAssetRegistryConfig::ttl_ms (30 minutes)
          MaxUses,     \* bound: registrations and loads, the access sequence
          MaxClock     \* bound: steps of the clock

ASSUME LocalAssetsAssumption == /\ Pages \subseteq Seq(Images) \ {<< >>}
                                /\ MaxEntries \in Nat \ {0} /\ Ttl \in Nat
                                /\ MaxUses \in Nat /\ MaxClock \in Nat

VARIABLES assets,   \* the registry: token of each path, entry of each token, access sequence
          clock,
          answer,   \* of each handler: the images to register, the tokens it has
          told,     \* the tokens the phones were told of
          issued    \* history: of every token its image, its age, the other images used since it was

assetVars == <<assets, clock, answer, told, issued>>

NoAnswer == [left |-> << >>, given |-> {}]

AssetsInit == /\ assets = [byPath |-> << >>, byToken |-> << >>, sequence |-> 0]
              /\ clock = 0 /\ told = {} /\ issued = << >>
              /\ answer = [h \in Handlers |-> NoAnswer]

(***************************************************************************)
(* The registry's operations, on its value r.                               *)
(***************************************************************************)
Tokens(r) == DOMAIN r.byToken

\* remove_token, of several tokens.
Without(r, tokens) ==
  [r EXCEPT !.byToken = Restrict(@, DOMAIN @ \ tokens),
            !.byPath = Restrict(@, DOMAIN @ \ {r.byToken[t].path : t \in tokens})]

Expired(entry) == clock - entry.created > Ttl

Pruned(r) == Without(r, {t \in Tokens(r) : Expired(r.byToken[t])})

\* Mutant of Touched: a use does not rank the entry.
TouchedNot(r, token) == r

\* touch_existing: an entry's age is that of its making, a use only ranks it.
Touched(r, token) ==
  [r EXCEPT !.byToken[token].used = r.sequence + 1, !.sequence = @ + 1]

Added(r, image, token) ==
  [byPath |-> [p \in DOMAIN r.byPath \cup {image} |-> IF p = image THEN token ELSE r.byPath[p]],
   byToken |-> [t \in Tokens(r) \cup {token} |->
                  IF t = token THEN [path |-> image, created |-> clock, used |-> r.sequence + 1]
                  ELSE r.byToken[t]],
   sequence |-> r.sequence + 1]

\* enforce_capacity: the least recently used go, as long as there are too many.
Newer(r, token) == {t \in Tokens(r) : r.byToken[t].used > r.byToken[token].used}
Enforced(r) == Without(r, {t \in Tokens(r) : Cardinality(Newer(r, t)) >= MaxEntries})

\* register_image.
Known(r, image) == image \in DOMAIN r.byPath /\ r.byPath[image] \in Tokens(r)
Registered(r, image, fresh) ==
  IF Known(r, image) THEN Touched(r, r.byPath[image]) ELSE Enforced(Added(r, image, fresh))

(***************************************************************************)
(* The handlers: list_session_events, apply_codex_notification and the       *)
(* requests that publish a message register the images of what they tell.    *)
(***************************************************************************)
\* The image was used under that token: it is a rival of every other token's.
Used(history, token) ==
  [t \in DOMAIN history |->
     [history[t] EXCEPT !.rivals = IF t = token THEN {} ELSE @ \cup {history[token].image}]]

BeginPage(h) == /\ answer[h] = NoAnswer
            /\ \E page \in Pages : answer' = [answer EXCEPT ![h].left = page]
            /\ UNCHANGED <<assets, clock, told, issued>>

\* One turn of register_local_assets_for_event.
RegisterNext(h) ==
  /\ answer[h].left # << >> /\ assets.sequence < MaxUses
  /\ LET image == Head(answer[h].left)
         pruned == Pruned(assets)
         known == Known(pruned, image)
         token == IF known THEN pruned.byPath[image] ELSE Len(issued) + 1
     IN  /\ assets' = Registered(pruned, image, token)
         /\ issued' = Used(IF known THEN issued
                           ELSE Append(issued, [image |-> image, born |-> clock, rivals |-> {}]),
                           token)
         /\ answer' = [answer EXCEPT ![h] = [left |-> Tail(@.left), given |-> @.given \cup {token}]]
  /\ UNCHANGED <<clock, told>>

ReplyPage(h) == /\ answer[h].left = << >> /\ answer[h] # NoAnswer
            /\ told' = told \cup answer[h].given
            /\ answer' = [answer EXCEPT ![h] = NoAnswer]
            /\ UNCHANGED <<assets, clock, issued>>

\* get_local_image_asset: what is not known any more is not found, which prunes all
\* the same.  Whether the file can be read changes nothing.
Load(token) ==
  /\ token \in told /\ assets.sequence < MaxUses
  /\ LET pruned == Pruned(assets)
     IN  IF token \in Tokens(pruned)
         THEN assets' = Touched(pruned, token) /\ issued' = Used(issued, token)
         ELSE assets' = pruned /\ UNCHANGED issued
  /\ UNCHANGED <<clock, answer, told>>

TimePasses == clock < MaxClock /\ clock' = clock + 1 /\ UNCHANGED <<assets, answer, told, issued>>

AssetsNext == \/ \E h \in Handlers : BeginPage(h) \/ RegisterNext(h) \/ ReplyPage(h)
              \/ \E token \in told : Load(token)
              \/ TimePasses

\* An image can be loaded under the token its phone was told for as long as the token
\* lives, whatever else is registered, loaded, expired or forgotten meanwhile, unless as
\* many other images as the registry holds were used after it (register_image,
\* path_for, enforce_capacity).
FreshIsServed ==
  \A token \in DOMAIN issued :
    LET of == issued[token]
    IN  clock - of.born <= Ttl /\ Cardinality(of.rivals) < MaxEntries =>
          token \in Tokens(assets) /\ assets.byToken[token].path = of.image
=============================================================================
