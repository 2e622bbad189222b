---------------------------- MODULE MCRiskReview ----------------------------
(* An instance of RiskReview for TLC.                                       *)
EXTENDS RiskReview

MCTrackShapes == {[kind |-> "vehicle", signs |-> {"ahead", "lateral"}],
                  [kind |-> "vehicle", signs |-> {"stopping", "edge"}],
                  [kind |-> "pedestrian", signs |-> {"path"}]}

MCReplyBehaviors == {"front_collision_risk", "cut_in_or_abrupt_lane_change"}
=============================================================================
