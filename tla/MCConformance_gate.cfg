CONSTANTS
  Settings <- SomeSettings
  Controls <- SomeControls
  Within <- SloNames
SPECIFICATION Spec
PROPERTIES
  PassIsDeclared
