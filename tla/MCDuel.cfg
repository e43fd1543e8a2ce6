SPECIFICATION Spec
CONSTANT NVenom = 2
INVARIANT OneShotPerPull
INVARIANT ChargedForEveryShot
INVARIANT HeartPerPull
PROPERTY FullOnResume
PROPERTY ImplementsHearts
PROPERTY HitLands
