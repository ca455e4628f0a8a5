CONSTANTS
  Size = 4
  Kodi <- MCKodi
  Actions <- MCActions
  Bodies <- MCBodies
  Names <- MCNames
  Defined = {"INPUT_SWITCHER_ACTIVITY"}
SPECIFICATION Spec
INVARIANTS TypeOK KodiRecognised DoesAsDocumented SeenOnce
PROPERTY Decides
CHECK_DEADLOCK FALSE
