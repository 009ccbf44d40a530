---------------------------- MODULE MCSceneLoader ----------------------------
(* The elements tried in each place of a file.                             *)
EXTENDS SceneLoader

Element(tag, type) == [tag |-> tag, type |-> type, name |-> "", value |-> "", wellFormed |-> TRUE]
Property(tag, name, value) == [tag |-> tag, type |-> "", name |-> name, value |-> value, wellFormed |-> TRUE]
Malformed(el) == [el EXCEPT !.wellFormed = FALSE]

Scene == Element("scene", "scene")
Obj == Element("mesh", "obj")
DiffuseBsdf == Element("bsdf", "diffuse")
AreaLight == Element("emitter", "area")
Camera == Element("camera", "perspective")
PathMis == Element("integrator", "path_mis")
Filename == Property("string", "filename", "mesh")
Radiance == Property("color", "radiance", "white")

\* Assembling a scene: missing, repeated and misplaced members.
SceneGrammar ==
  [none |-> {Scene},
   scene |-> {Obj, Camera, PathMis, Element("sampler", "independent"), DiffuseBsdf},
   obj |-> {Filename, AreaLight, DiffuseBsdf},
   area |-> {Radiance}]

Texture(type) == Element("texture", type)
Use(use) == Property("string", "use", use)
ToWorld == Property("transform", "toWorld", "")
Move == Property("translate", "", "T")
Turn == Property("rotate", "", "R")

\* Members below a mesh, a camera or a test: transforms, textures and filters,
\* properties missing, repeated, of another type or malformed, classes that do
\* not exist or belong to another tag.
MemberGrammar ==
  [none |-> {Obj, Camera, Element("test", "ttest"), Element("test", "chi2test"), Filename,
            DiffuseBsdf, AreaLight},
   obj |-> {Filename, Property("string", "filename", "absent"), ToWorld, DiffuseBsdf,
            Element("bsdf", "mirror"), Element("emitter", "diffuse"), AreaLight},
   transform |-> {Move, Turn, Malformed(Move), Radiance},
   rotate |-> {Radiance},
   diffuse |-> {Texture("solid"), Texture("image")},
   area |-> {Radiance, Malformed(Radiance), Property("string", "radiance", "white"), Texture("solid")},
   solid |-> {Property("color", "value", "white"), Use("albedo"), Use("radiance"), Use("bump")},
   image |-> {Use("albedo"), Filename, Element("tfilter", "bilinear")},
   bilinear |-> {Element("tfilter", "bilinear")},
   perspective |-> {Element("rfilter", "gaussian"), Element("rfilter", "box"), ToWorld,
                    Property("integer", "fov", "30"), Element("wall", "wall")},
   ttest |-> {DiffuseBsdf, Scene},
   chi2test |-> {DiffuseBsdf, Scene},
   scene |-> {Camera, PathMis}]

Both == {SceneGrammar, MemberGrammar}
===============================================================================
