----------------------------- MODULE MCRunQueue -----------------------------
(* Small builds for TLC; each .cfg picks one.                              *)
EXTENDS RunQueue

NoFlags == [halt |-> TRUE, force |-> FALSE, skipsetscene |-> FALSE,
            setsceneonly |-> FALSE, setscene_enforce |-> FALSE]
Continuing == [NoFlags EXCEPT !.halt = FALSE]
Enforcing == [NoFlags EXCEPT !.setscene_enforce = TRUE]
SceneOnly == [NoFlags EXCEPT !.setsceneonly = TRUE]
Halt == {NoFlags}
HaltOrEnforce == Halt \cup {Enforcing}
HaltOrContinueOrSceneOnly == Halt \cup {Continuing, SceneOnly}
Both == Kind \X Task
Same == [t \in Task |-> t]
One == [t \in Task |-> 1]
NoHardDeps == [t \in Setscene |-> {}]
ZeroHash == [t \in Task |-> 0]
MinusTwo == -2
Unlimited == [n \in {TaskName[t] : t \in Task} |-> 0]

-----------------------------------------------------------------------------
\* "fork": b's compile uses a's package, b's and c's packages are both made
\* from it, and the image needs both and a's compile; b's setscene task has a
\* hard dependency on a's.
ForkTask == {"a_comp", "a_pkg", "b_comp", "b_pkg", "c_pkg", "image"}
ForkSetscene == {"a_pkg", "b_pkg", "c_pkg"}
ForkDepends == [a_comp |-> {}, a_pkg |-> {"a_comp"}, b_comp |-> {"a_pkg"},
                b_pkg |-> {"b_comp"}, c_pkg |-> {"b_comp"},
                image |-> {"b_pkg", "c_pkg", "a_comp"}]
\* Left by earlier builds: c's package was restored under another hash.
ForkStamps == {<<"real", "a_comp", 0>>, <<"scene", "a_pkg", 0>>,
               <<"scene", "c_pkg", 1>>}
ForkHardDeps == [a_pkg |-> {}, b_pkg |-> {"a_pkg"}, c_pkg |-> {}]

-----------------------------------------------------------------------------
\* "twins": the same recipes in two multiconfigs; the packages of the second
\* are deferred until those of the first.
TwinsTask == {"m1_lib", "m1_app", "m1_image", "m2_lib", "m2_app", "m2_image"}
TwinsSetscene == {"m1_lib", "m1_app", "m2_lib", "m2_app"}
TwinsDepends == [m1_lib |-> {}, m1_app |-> {"m1_lib"}, m1_image |-> {"m1_app"},
                 m2_lib |-> {}, m2_app |-> {"m2_lib"}, m2_image |-> {"m2_app"}]
TwinsPN == [m1_lib |-> "lib", m1_app |-> "app", m1_image |-> "image",
            m2_lib |-> "lib", m2_app |-> "app", m2_image |-> "image"]
TwinsRank == [m1_lib |-> 1, m1_app |-> 2, m2_lib |-> 3, m2_app |-> 4]
\* The library is the same for both; it and the image have one directory each.
\* One application is built at a time; the first library's restore may fail,
\* and the second's build.
LibStamp == [TwinsPN EXCEPT !["m1_app"] = "m1_app", !["m2_app"] = "m2_app"]
TwinsFail == {<<"scene", "m1_lib">>, <<"real", "m2_lib">>}
OneOfApp == [lib |-> 0, app |-> 1, image |-> 0]
\* The second application has another hash; an image's leaves out that of its
\* application, so the images have one stamp.
LibHash == [t \in TwinsTask |-> IF t = "m2_app" THEN 1 ELSE 0]
=============================================================================
