SPECIFICATION Spec
INVARIANT TypeOK
PROPERTIES DeedsSurvive MigrationsLoseNothing
