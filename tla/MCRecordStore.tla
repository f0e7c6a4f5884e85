---------------------------- MODULE MCRecordStore ----------------------------
(***************************************************************************)
(* Instances of RecordStore for TLC: two workers.                          *)
(***************************************************************************)
EXTENDS RecordStore

MCValues == {"calm", "wild"}

(* wild is refused.                                                        *)
MCLawful == {"calm"}

(* The draft's group is required while the persona's holds a pick; an      *)
(* empty character may be committed.                                       *)
MCComplete == {<<"calm", "calm">>, <<"calm", NoValue>>, <<NoValue, NoValue>>}

(* Receipts of the first character: one of a persona value, one of a       *)
(* persona and an identity value.                                          *)
MCReceipts == {"portrait", "scene"}
MCOwnerOf == [r \in Receipts |-> "ada"]
MCMentions == [r \in Receipts |-> IF r = "portrait" THEN {"persona"} ELSE Layers]
MCRecorded == [r \in Receipts |-> "calm"]

OneCharacter == {"ada"}

OneValue == {"calm"}

OneReceipt == {"portrait"}

=============================================================================
