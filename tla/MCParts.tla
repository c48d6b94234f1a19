------------------------------ MODULE MCParts ------------------------------
(* Constants for model checking Parts; the bounds are in the cfg. *)
EXTENDS MCRegistration, Parts

TwoTournaments == {"t1", "t2"}
TwoTicks == {"k1", "k2"}
TwoChats == {"c1", "c2"}
TwoCodes == {"k1", "k2"}
TwoCommands == {"s1", "s2"}
ThreeSockets == {"s1", "s2", "s3"}
ThreeViews == {"v1", "v2", "v3"}
TwoPhones == {"p1", "p2"}
OneAccount == {"p1"}
OneProcess == {"gateway"}
TwoDesktops == {"d1", "d2"}
OneDashboard == {"b1"}
TwoTabs == {"t1", "t2"}
OneForm == {{"name", "phone"}}
TwoTexts == {0, 1}
OneFile == {1}
player == "me"
TwoGuests == {"g1", "g2"}
marker == "g1"
ThreePlayed == 1..3
TwoDays == <<1, 1, 2>>
ThreeCosts == <<1, 2, 3>>
TwoSizes == {8, 501}
=============================================================================
