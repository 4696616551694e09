--------------------------------- MODULE MCSearch ---------------------------------
(***************************************************************************)
(* Four listings, three in one building and two of each source, whose      *)
(* documents change: evidence on both sides of the threshold, evidence     *)
(* that conflicts, missing and odd values, lists of features, a feature    *)
(* that is spelt twice.                                                    *)
(***************************************************************************)
EXTENDS Search, TLC

CONSTANTS mission, noe, south, east, feed, site, office, transit, car

Number(n) == [kind |-> "number", size |-> n, items |-> {}, str |-> n]
Yes == [kind |-> "yes", size |-> 1, items |-> {}, str |-> 31]
No == [kind |-> "no", size |-> 0, items |-> {}, str |-> 30]
Date(day) == [kind |-> "date", size |-> day, items |-> {}, str |-> 20 + day]
Now == [kind |-> "now", size |-> 0, items |-> {}, str |-> 40]
None == [kind |-> "none", size |-> 0, items |-> {}, str |-> 29]
Essay == [kind |-> "essay", size |-> 0, items |-> {}, str |-> 50]
Listing(items, str) == [kind |-> "words", size |-> 0, items |-> items, str |-> str]

Is(v, confidence) == <<[value |-> v, confidence |-> confidence]>>
Sure(v) == Is(v, 8)
Unsure(v) == Is(v, 4)

Doc(building, neighborhood, source, title, names, fields, commutes) ==
  [ building |-> building, neighborhood |-> neighborhood, source |-> source,
    title |-> title, body |-> <<"flat">>, names |-> names, fields |-> fields,
    evidence |-> [f \in DOMAIN fields |-> {3, 1, 2}], commutes |-> commutes ]
NoCommutes == [label \in {} |-> Absent]
ToOffice(mode, duration, confidence) ==
  office :> [mode |-> mode, duration |-> duration, confidence |-> confidence]

\* One listing per id as a function of what is known of it.
Plainly(i, names, fields, commutes) ==
  Doc(IF i = 3 THEN east ELSE south, IF i = 2 THEN noe ELSE mission, IF i \in {1, 4} THEN feed ELSE site,
      IF i = 3 THEN <<"sunny">> ELSE <<>>, names, fields, commutes)

Prices(v) == "price" :> v
MCDocuments ==
  1 :> { Plainly(1, <<"amenities", "beds", "price">>,
           "amenities" :> <<[value |-> Listing({"parking"}, 1), confidence |-> 9],
                            [value |-> Listing({"pool"}, 2), confidence |-> 9]>>
           @@ "beds" :> Sure(Number(2)) @@ Prices(Sure(Number(6))), NoCommutes),
         Plainly(1, <<"description", "price">>,
           "description" :> Sure(Essay) @@ Prices(Sure(Number(20))), ToOffice(transit, 30, 8)) }
  @@ 2 :> { Plainly(2, <<"availability", "price">>,
              "availability" :> Unsure(Date(9)) @@
              Prices(<<[value |-> Number(4), confidence |-> 4], [value |-> Number(20), confidence |-> 8]>>),
              ToOffice(car, 9, 8)),
            Plainly(2, <<"beds", "pet friendly", "pet_friendly", "price">>,
              "beds" :> Sure(None) @@ "pet friendly" :> Sure(No) @@ "pet_friendly" :> Unsure(No)
              @@ Prices(Unsure(Number(20))), NoCommutes) }
  @@ 3 :> { Plainly(3, <<"availability", "parking">>,
              "availability" :> Sure(Now) @@ "parking" :> Sure(Yes), ToOffice(transit, 30, 4)),
            Plainly(3, <<"availability", "baths", "features", "note", "pet friendly", "pet_friendly">>,
              "availability" :> Sure(Date(3)) @@ "baths" :> Sure(Number(1))
              @@ "features" :> Sure(Listing({"pool"}, 3)) @@ "note" :> Sure(Essay)
              @@ "pet friendly" :> Sure(No) @@ "pet_friendly" :> Sure(Yes), NoCommutes) }
  @@ 4 :> { Plainly(4, <<"amenities", "price">>,
              "amenities" :> Unsure(Listing({"pet_friendly", "pool"}, 4)) @@ Prices(Sure(Number(8))), NoCommutes) }

-------------------------------------------------------------------------------
Says(word) == [word |-> word, dressed |-> TRUE]
Bare(word) == [word |-> word, dressed |-> FALSE]
NoConstraint ==
  [ price_min |-> Absent, price_max |-> Absent, beds_min |-> Absent, baths_min |-> Absent,
    include |-> {}, exclude |-> {}, commute_max |-> {}, must_have |-> {}, must_not |-> {},
    available_now |-> FALSE, move_in_after |-> Absent ]
Asks(hard) ==
  [ parses |-> TRUE, schema_version |-> SchemaVersion,
    spec |-> [day |-> 5, prompt |-> <<Says("flat"), Bare("sunny")>>, hard |-> hard] ]
Ride(label, max) == [label |-> label, mode |-> transit, max |-> max]

MCPayloads ==
  "spec" :>
  { Asks(NoConstraint),
    Asks([NoConstraint EXCEPT !.price_max = 10, !.price_min = 5, !.beds_min = 1]),
    Asks([NoConstraint EXCEPT !.include = {Says("mission district")}, !.baths_min = 2]),
    Asks([NoConstraint EXCEPT !.exclude = {Bare("noe")}, !.commute_max = {Ride(Says(office), 20)}]),
    Asks([NoConstraint EXCEPT !.must_have = {Says("pet friendly"), Bare(Blank)}, !.available_now = TRUE]),
    Asks([NoConstraint EXCEPT !.must_have = {Bare("parking")}, !.must_not = {Says("pool")}, !.move_in_after = 6]),
    Asks([NoConstraint EXCEPT !.price_min = 3, !.price_max = 2]),
    Asks([NoConstraint EXCEPT !.available_now = TRUE, !.move_in_after = 4]),
    Asks([NoConstraint EXCEPT !.exclude = {Bare("nowhere")}]),
    Asks([NoConstraint EXCEPT !.commute_max = {Ride(Says(Blank), -1)}]),
    Asks([NoConstraint EXCEPT !.commute_max = {Ride(Says(Blank), 5)}]),
    [Asks(NoConstraint) EXCEPT !.schema_version = Absent],
    [Asks(NoConstraint) EXCEPT !.parses = FALSE] }

MCNeighborhoodAlias == "mission district" :> mission @@ "noe" :> noe
MCFeatureAlias == "pets" :> "pet_friendly"
MCUnderscored == "pet friendly" :> "pet_friendly"
MCSpellings ==
  "parking" :> <<"parking">> @@ "pool" :> <<"pool">>
  @@ "pet_friendly" :> <<"pet_friendly", "pet friendly">>
===============================================================================
