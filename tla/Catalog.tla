------------------------------- MODULE Catalog -------------------------------
(***************************************************************************)
(* Products and bundles of one event: services/products.ts and             *)
(* services/bundles.ts.  Creating either is a row of statements without a  *)
(* transaction, behind a check that reads first; two unique indexes of     *)
(* app.products stand behind the check.                                    *)
(***************************************************************************)
EXTENDS Integers, Sequences, FiniteSets

CONSTANTS
  PhotoIds, Tiers,
  Tagged,        \* photos with a confident tag of the bundles' bib
  Editors,       \* requests of organizers that may be under way at once
  MaxProducts,   \* bound on the rows of app.products
  MaxBundles     \* bound on the rows of app.bundles

ASSUME CatalogAssumption ==
  /\ Tagged \subseteq PhotoIds /\ PhotoIds # {} /\ Tiers # {}
  /\ {MaxProducts, MaxBundles} \subseteq Nat

VARIABLES
  products,   \* app.products, in the order of insertion
  bundles,    \* app.bundles with their bundle_items
  ready,      \* photos with status ready
  editor      \* where each request stands

catalogVars == <<products, bundles, ready, editor>>

NoPhoto == "none"
NoTier == "none"
\* A product of a photo has bundle 0 and a SKU that spells the photo and the
\* tier it was created for; one of a bundle has no photo and a random SKU.
ProductRows == [photo : PhotoIds \cup {NoPhoto}, tier : Tiers, skuTier : Tiers,
                bundle : 0 .. MaxBundles, active : BOOLEAN]
BundleKinds == {"bib", "foto_flat", "custom"}
BundleRows == [kind : BundleKinds, wanted : SUBSET PhotoIds, items : SUBSET PhotoIds, tier : Tiers]
EditorStates == [pc : {"idle", "product", "items"}, photo : PhotoIds \cup {NoPhoto},
                 tier : Tiers \cup {NoTier}, bundle : 0 .. MaxBundles]
EditorIdle == [pc |-> "idle", photo |-> NoPhoto, tier |-> NoTier, bundle |-> 0]

EditorAt(d, pc) == editor[d].pc = pc
EditorBegins(d, pc, photo, tier, bundle) ==
  /\ EditorAt(d, "idle")
  /\ editor' = [editor EXCEPT ![d] = [pc |-> pc, photo |-> photo, tier |-> tier, bundle |-> bundle]]
EditorEnds(d) == editor' = [editor EXCEPT ![d] = EditorIdle]

\* products_event_photo_kind_license_unique; NULLs are distinct to it.
HasProduct(photo, tier) == \E i \in DOMAIN products : products[i].photo = photo /\ products[i].tier = tier
\* products_sku_unique
HasSku(photo, tier) == \E i \in DOMAIN products : products[i].photo = photo /\ products[i].skuTier = tier

------------------------------------------------------------------------------
\* The check of createProduct answers 409 to what is there, deactivated or not.
CreateProduct(d) ==
  /\ \E p \in PhotoIds, t \in Tiers : ~HasProduct(p, t) /\ EditorBegins(d, "product", p, t, 0)
  /\ UNCHANGED <<products, bundles, ready>>

InsertRow(photo, tier, bundle) ==
  products' = Append(products, [photo |-> photo, tier |-> tier, skuTier |-> tier,
                                bundle |-> bundle, active |-> TRUE])

\* Either index refuses the insert: a 500.
InsertProduct(d) ==
  /\ EditorAt(d, "product") /\ Len(products) < MaxProducts /\ EditorEnds(d)
  /\ LET q == editor[d] IN
       IF HasProduct(q.photo, q.tier) \/ HasSku(q.photo, q.tier) THEN products' = products
       ELSE InsertRow(q.photo, q.tier, 0)
  /\ UNCHANGED <<bundles, ready>>

\* PATCH of the licence tier keeps the SKU; the index refuses a taken one.
UpdateProduct ==
  /\ \E i \in DOMAIN products, t \in Tiers :
       /\ t # products[i].tier
       /\ products[i].photo = NoPhoto \/ ~HasProduct(products[i].photo, t)
       /\ products' = [products EXCEPT ![i].tier = t]
  /\ UNCHANGED <<bundles, ready, editor>>

\* Nothing sets active again.
DeactivateProduct ==
  /\ \E i \in DOMAIN products : products[i].active /\ products' = [products EXCEPT ![i].active = FALSE]
  /\ UNCHANGED <<bundles, ready, editor>>

------------------------------------------------------------------------------
\* createBundle inserts the bundle, its items one by one and the product.
CreateBundle(d) ==
  /\ Len(bundles) < MaxBundles
  /\ \E k \in BundleKinds, t \in Tiers, w \in SUBSET PhotoIds :
       /\ w # {} => k = "custom"
       /\ bundles' = Append(bundles, [kind |-> k, wanted |-> w, items |-> {}, tier |-> t])
       /\ EditorBegins(d, "items", NoPhoto, t, Len(bundles) + 1)
  /\ UNCHANGED <<products, ready>>

InsertBundleItem(d) ==
  /\ EditorAt(d, "items")
  /\ LET b == editor[d].bundle IN
       \E p \in bundles[b].wanted \ bundles[b].items : bundles' = [bundles EXCEPT ![b].items = @ \cup {p}]
  /\ UNCHANGED <<products, ready, editor>>

\* Mutant: the product is inserted as soon as the bundle is.
InsertProductFirst(d) ==
  /\ EditorAt(d, "items") /\ Len(products) < MaxProducts /\ EditorEnds(d)
  /\ InsertRow(NoPhoto, editor[d].tier, editor[d].bundle)
  /\ UNCHANGED <<bundles, ready>>

InsertBundleProduct(d) ==
  /\ EditorAt(d, "items") /\ Len(products) < MaxProducts /\ EditorEnds(d)
  /\ bundles[editor[d].bundle].items = bundles[editor[d].bundle].wanted
  /\ InsertRow(NoPhoto, editor[d].tier, editor[d].bundle)
  /\ UNCHANGED <<bundles, ready>>

EditorDies(d) == ~EditorAt(d, "idle") /\ EditorEnds(d) /\ UNCHANGED <<products, bundles, ready>>

\* resolveBundle; nothing resolved is bundle_empty.
ResolveBundle(b) ==
  CASE bundles[b].kind = "bib" -> Tagged \cap ready
    [] bundles[b].kind = "foto_flat" -> ready
    [] OTHER -> bundles[b].items

\* The active products that name the bundle.
BundleProducts(b) == {i \in DOMAIN products : products[i].active /\ products[i].bundle = b}

\* addBundleToCart and checkout accept it.
ForSale(b) == ResolveBundle(b) # {} /\ BundleProducts(b) # {}

\* The pipeline and the moderators make photos ready or not.
SetReady ==
  /\ \E p \in PhotoIds : ready' = IF p \in ready THEN ready \ {p} ELSE ready \cup {p}
  /\ UNCHANGED <<products, bundles, editor>>

------------------------------------------------------------------------------
CatalogInit ==
  /\ products = <<>> /\ bundles = <<>> /\ ready \in {{}, PhotoIds}
  /\ editor = [d \in Editors |-> EditorIdle]

CatalogNext ==
  \/ \E d \in Editors :
       \/ CreateProduct(d) \/ InsertProduct(d) \/ CreateBundle(d) \/ InsertBundleItem(d)
       \/ InsertBundleProduct(d) \/ EditorDies(d)
  \/ UpdateProduct \/ DeactivateProduct \/ SetReady

CatalogSpec == CatalogInit /\ [][CatalogNext]_catalogVars

------------------------------------------------------------------------------
\* Every row is a row of the schema and every request is where it can be.
CatalogTypeOK ==
  /\ products \in Seq(ProductRows) /\ Len(products) <= MaxProducts
  /\ bundles \in Seq(BundleRows) /\ Len(bundles) <= MaxBundles
  /\ ready \subseteq PhotoIds /\ editor \in [Editors -> EditorStates]

\* A custom bundle that can be bought holds every photo it was created with,
\* wherever its creation stopped (createBundle; findBundleProduct, resolveBundle).
SoldWhole == \A b \in DOMAIN bundles : ForSale(b) => bundles[b].items = bundles[b].wanted
==============================================================================
