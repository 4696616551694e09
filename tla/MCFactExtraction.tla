---------------------------- MODULE MCFactExtraction ----------------------------
(***************************************************************************)
(* Two snapshots, one with a page that states its price three times and    *)
(* spells its number of beds in an address first, and one with nothing but *)
(* markdown, and outputs of the model with every kind of reference into    *)
(* them.                                                                   *)
(***************************************************************************)
EXTENDS FactExtraction, TLC

CONSTANT nobody

Number(n) == [form |-> "number", size |-> n, dressed |-> FALSE]
Plain(n) == [form |-> "text", size |-> n, dressed |-> FALSE]
Dressed(n) == [form |-> "text", size |-> n, dressed |-> TRUE]
Words(n) == [form |-> "words", size |-> n, dressed |-> FALSE]

Token(path, v) == [reads |-> path, value |-> v]
Rent == Token("/listing/price", Dressed(8))
Gap == Token(Absent, Absent)
Tag(v) == Token(Absent, v)

Item(address, offers, beds, baths) ==
  [address |-> address, offers |-> offers, beds |-> beds, baths |-> baths]
Offer(price, availability) == [price |-> price, availability |-> availability]

Offers == <<Offer(Number(8), Dressed(3)), Offer(Number(8), Absent), Offer(Words(0), Absent)>>

Rich ==
  [ snapshot_id |-> "rich", markdown |-> Absent,
    text |-> <<Rent, Gap, Rent, Token("/listing/baths", Plain(6)), Token("/listing/address", Words(1))>>,
    html |-> <<Gap, Tag(Plain(2)), Tag(Plain(8)), Tag(Dressed(3)), Tag(Plain(2)), Gap>>,
    images |-> ("plan" :> [width |-> 2, height |-> 2]),
    blocks |-> << [start |-> 1, end |-> 5, items |->
                     << Item(Absent, Offers, Number(2), Number(6)) >>] >> ]

Bleak ==
  [ snapshot_id |-> "bleak", markdown |-> <<Rent>>, text |-> Absent, html |-> Absent,
    images |-> NoFunction, blocks |-> <<>> ]

TextRef(format, lo, hi, excerpt, hash) ==
  [ snapshot_id |-> "rich", kind |-> "text_span", excerpt |-> excerpt,
    locator |-> [source_format |-> format, start_char |-> lo, end_char |-> hi, text_hash |-> hash] ]
Spans == {<<0, 1>>, <<1, 1>>, <<-1, 1>>, <<0, 9>>, <<Absent, 1>>}
TextRefs ==
  {TextRef(format, span[1], span[2], excerpt, hash) :
     format \in {Absent, "html"}, span \in Spans,
     excerpt \in {Absent, <<Rent>>}, hash \in {Absent, <<Rent>>}}
ImageRef(image, x, width, y, height) ==
  [ snapshot_id |-> "rich", kind |-> "image_region", excerpt |-> Absent,
    locator |-> [image_ref |-> image, x |-> x, y |-> y, width |-> width, height |-> height] ]
ImageRefs ==
  {ImageRef("plan", x, width, 0, 2) : x \in {-1, 0, 1, Absent}, width \in {0, 2}}
  \cup {ImageRef("plan", 0, 2, y, height) : y \in {-1, 0, 1, Absent}, height \in {0, 2}}
  \cup {ImageRef("plan", 1, 1, 1, 1), ImageRef("none", 0, 2, 0, 2)}
OddRefs ==
  { [TextRef("markdown", 0, 1, <<Rent>>, Absent) EXCEPT !.snapshot_id = "bleak"],
    TextRef("pdf", 0, 1, Absent, Absent),
    [TextRef("text", 0, 1, Absent, Absent) EXCEPT !.kind = "screenshot"] }
Here == TextRef("text", 0, 1, <<Rent>>, Absent)
There == TextRef("text", 2, 3, <<Rent>>, <<Rent>>)

Field(path, value, confidence, refs) ==
  [path |-> path, value |-> value, confidence |-> confidence, evidence |-> refs]
Output(fields) == [parses |-> TRUE, schema_version |-> SchemaVersion, fields |-> fields]
Price(v, refs) == Field("/listing/price", v, 90, refs)

WithRef == {Output(<<Price(Number(8), <<ref>>)>>) : ref \in TextRefs \cup ImageRefs \cup OddRefs}
Twice == Output(<<Price(Dressed(8), <<Here>>), Price(Dressed(8), <<There>>), Price(Number(8), <<There, Here>>)>>)
Mixed == Output(<<Price(Absent, <<>>), Price(Plain(8), <<>>), Field("/units/price", Words(2), Absent, <<Here>>)>>)
Units == Output(<<Field("/units/beds", Number(5), 80, <<Here>>), Field("/units/beds", Number(7), 70, <<Here, There>>)>>)
WrongForm == Output(<<Field("/listing/beds", Words(2), 50, <<Here>>)>>)
Unreadable == [parses |-> FALSE, schema_version |-> SchemaVersion, fields |-> <<>>]
Outdated == [parses |-> TRUE, schema_version |-> nobody, fields |-> <<>>]

Job(s, version, output, repairs, max) ==
  [snapshot |-> s, version |-> version, output |-> output, repairs |-> repairs, max_retries |-> max]
MCJobs ==
  {Job(Rich, 1, output, <<>>, 0) : output \in WithRef \cup {Twice, Mixed, Units, Unreadable, Absent}}
  \cup {Job(Rich, 1, WrongForm, <<Outdated, Twice>>, max) : max \in 0..2}
  \cup {Job(Rich, 2, Twice, <<>>, 0)}
  \cup {Job(Bleak, 1, output, <<>>, 0) : output \in {Absent, Twice} \cup
          {Output(<<Price(Number(8), <<ref>>)>>) : ref \in OddRefs}}
===============================================================================
