--------------------------- MODULE MCOptionLoader ---------------------------
(***************************************************************************)
(* An instance of OptionLoader for TLC: files that define, extend and      *)
(* break three groups, alone and two fragments at a time.                  *)
(***************************************************************************)
EXTENDS OptionLoader

MCGroups == {"form", "scar", "bio", "tale"}
MCOptions == {"human", "elf", "example_one"}
MCTags == {"furred"}
NoCatalogs == {}
MCExamples == {"example_one"}

Entry(o, image) == [id |-> o, retired |-> FALSE, tags |-> {}, image |-> image]

Define(g, kind, home) == [id |-> g, label |-> "x", kind |-> kind, home |-> home]

Asks(op, g, args) == [op |-> op, group |-> g, args |-> args]

(* f and g together, as a fragment with the keys of both.                  *)
With(f, g) ==
  [k \in DOMAIN f \cup DOMAIN g |-> IF k \in DOMAIN f THEN f[k] ELSE g[k]]

FormPlain == With(Define("form", "pick_one", "identity"),
                  [options |-> {Entry("human", FALSE)}])
FormImage == With(Define("form", "pick_one", "identity"),
                  [options |-> {Entry("human", TRUE)}, priority |-> "must"])
FormElf == [id |-> "form", options |-> {Entry("elf", FALSE)}]
FormMust == [id |-> "form", options |-> {Entry("elf", TRUE)}, priority |-> "flavor"]
FormRetired ==
  [id |-> "form", options |-> {[Entry("human", FALSE) EXCEPT !.retired = TRUE]}]
FormNeeded == [id |-> "form", required |-> TRUE]
FormMoved == [id |-> "form", home |-> "persona"]
FormTwice == [id |-> "form", options |-> {Entry("elf", TRUE), Entry("elf", FALSE)}]
FormExample == [id |-> "form", options |-> {Entry("example_one", FALSE)}]
FormUnknown == [id |-> "form", colour |-> "red"]

Scar == With(Define("scar", "pick_many", "session"),
             [options |-> {Entry("elf", FALSE)}, max_picks |-> 1,
              visible_when |-> Asks("in", "form", {"human"})])
ScarNeeded == [id |-> "scar", required |-> TRUE]
ScarBio == [id |-> "scar", visible_when |-> Asks("not_in", "bio", {"human"})]
ScarAny == [id |-> "scar", visible_when |-> Asks("any", "bio", {}), max_picks |-> 2]
ScarEmpty == With(Define("scar", "pick_many", "persona"), [options |-> {}])

Bio == With(Define("bio", "free_text", "identity"), [feeds |-> "image", max_chars |-> 240])
Tale == With(Define("tale", "free_text", "identity"), [feeds |-> "chat", max_chars |-> 1])
TaleLong == With(Define("tale", "free_text", "persona"), [feeds |-> "chat", max_chars |-> 241])
BioPicks == [id |-> "bio", max_picks |-> 1]

File(r, fs) == [readable |-> TRUE, rating |-> r, groups |-> fs]

MCFiles ==
  {File("standard", <<f>>) :
     f \in {FormPlain, FormImage, FormNeeded, ScarBio, ScarAny, ScarEmpty, Bio}}
  \cup {File("mature", fs) :
     fs \in {<<FormElf, FormMoved>>, <<FormRetired, FormTwice>>, <<FormMust, FormRetired>>,
             <<Scar, ScarNeeded>>, <<Scar, FormUnknown>>, <<Bio, BioPicks>>}}
  \cup {File("explicit", fs) : fs \in {<<Scar>>, <<FormExample>>, <<Tale>>, <<Bio, TaleLong>>}}
  \cup {[readable |-> FALSE, rating |-> "standard", groups |-> << >>],
        File("unrated", <<Bio>>), File("standard", << >>)}

=============================================================================
